---- MODULE Spec2Model ----
(***************************************************************************)
(* Multi-asset order splitter: the order service (mode detection,          *)
(* portfolio validation, splitting), the request schema in front of it,    *)
(* the configuration repository and the indexed in-memory order            *)
(* repository.                                                             *)
(*                                                                         *)
(* Numbers.  The program computes with JavaScript numbers.  The model      *)
(* computes with exact decimals held as integers:                          *)
(*   money (totals, amounts, prices, costs)  in 1/MoneyScale dollars,      *)
(*   allocation percentages                  in 1/PctScale percent,        *)
(*   share counts of an order                in 1/10^decimalPrecision.     *)
(* Math.round is floor(x + 1/2).  Binary representation error of IEEE-754  *)
(* doubles is outside these decimals; roundToDecimalIEEE is the rounding   *)
(* function on doubles.  An absent optional number is Undefined, an absent *)
(* asset type is NoType.                                                   *)
(***************************************************************************)
EXTENDS Integers, Sequences, FiniteSets, TLC

VARIABLES
    orders,             \* OrderRepository.orders: Map orderId -> Order
    ordersByType,       \* OrderRepository.ordersByType: Map orderType -> Set<orderId>
    ordersBySymbol,     \* OrderRepository.ordersBySymbol: Map symbol -> Set<orderId>
    ordersByAssetType,  \* OrderRepository.ordersByAssetType: Map assetType -> Set<orderId>
    ordersByDate,       \* OrderRepository.ordersByDate: orderId[] in insertion order
    statsCache,         \* OrderRepository.statsCache: null or {data, timestamp, ttl}
    decimalPrecision,   \* ConfigRepository.decimalPrecision
    now,                \* the wall clock, in milliseconds
    today,              \* the market-local calendar day on which the clock read 0
    nextId,             \* number of order ids issued so far (uuidv4 never repeats)
    response            \* what the last operation returned or threw, until it is delivered

vars == <<orders, ordersByType, ordersBySymbol, ordersByAssetType, ordersByDate,
          statsCache, decimalPrecision, now, today, nextId, response>>

-----------------------------------------------------------------------------
(* Bounds of the model *)

MaxAssets == 3
MaxPrecision == 3
MaxOrders == 3
MaxTicks == 2
TickMs == 30000

(* Scales of the decimal representation *)

MoneyScale == 1000
PctScale == 100

(* Program constants *)

DEFAULT_ASSET_PRICE == 100
DEFAULT_DECIMAL_PRECISION == 3
MIN_DECIMAL_PRECISION == 0
MAX_DECIMAL_PRECISION == 10
MAX_ORDER_AMOUNT == 100000000
MAX_ASSETS_PER_PORTFOLIO == 200
DefaultLimit == 50
StatsTtl == 60000

Undefined == -1
NoType == "none"
Null == [kind |-> "null"]

-----------------------------------------------------------------------------
(* Sequences *)

Range(s) == {s[i] : i \in 1..Len(s)}

RECURSIVE SumSeq(_)
SumSeq(s) == IF s = <<>> THEN 0 ELSE Head(s) + SumSeq(Tail(s))

RECURSIVE FilterSeq(_, _)
\* the elements of s that are in the set keep, in the order of s (Array.filter)
FilterSeq(s, keep) ==
    IF s = <<>> THEN <<>>
    ELSE IF Head(s) \in keep THEN <<Head(s)>> \o FilterSeq(Tail(s), keep)
    ELSE FilterSeq(Tail(s), keep)

RECURSIVE InsertIdx(_, _, _)
InsertIdx(s, i, keys) ==
    IF s = <<>> THEN <<i>>
    ELSE IF keys[Head(s)] <= keys[i] THEN <<Head(s)>> \o InsertIdx(Tail(s), i, keys)
    ELSE <<i>> \o s

RECURSIVE SortIdxUpTo(_, _)
SortIdxUpTo(keys, n) ==
    IF n = 0 THEN <<>> ELSE InsertIdx(SortIdxUpTo(keys, n - 1), n, keys)

\* Array.prototype.sort with the comparator (a, b) => key(a) - key(b): ascending
\* by key, stable (elements of equal key keep their order).
ArraySort(items, keys) ==
    LET p == SortIdxUpTo(keys, Len(items))
    IN  [k \in 1..Len(items) |-> items[p[k]]]

\* Array.prototype.slice(from, to) with 0 <= from <= to
ArraySlice(s, from, to) ==
    LET hi == IF to < Len(s) THEN to ELSE Len(s)
    IN  IF from >= hi THEN <<>> ELSE SubSeq(s, from + 1, hi)

-----------------------------------------------------------------------------
(* Arithmetic *)

Abs(x) == IF x < 0 THEN -x ELSE x

RECURSIVE GCD(_, _)
GCD(a, b) == IF b = 0 THEN a ELSE GCD(b, a % b)

\* Math.round(n / d) for d > 0: the nearest integer, halves towards +infinity
MathRound(n, d) == (2 * n + d) \div (2 * d)

\* Math.round(a * b / c) for b, c > 0, computed without forming a * b
MulDivRound(a, b, c) ==
    LET g == GCD(b, c)
        b1 == b \div g
        c1 == c \div g
    IN  (a \div c1) * b1 + MathRound((a % c1) * b1, c1)

\* Math.round half to even, the rounding the comment of roundToDecimal names
MulDivRoundHalfEven(a, b, c) ==
    LET g == GCD(b, c)
        b1 == b \div g
        c1 == c \div g
        q == (a \div c1) * b1 + (((a % c1) * b1) \div c1)
        r == ((a % c1) * b1) % c1
    IN  IF 2 * r > c1 THEN q + 1
        ELSE IF 2 * r < c1 THEN q
        ELSE IF q % 2 = 0 THEN q ELSE q + 1

\* roundToDecimal rounding halves to even
roundToDecimalHalfEven(a, b, c, decimals) ==
    LET multiplier == 10 ^ decimals
        g == GCD(multiplier, c)
    IN  MulDivRoundHalfEven(a, b * (multiplier \div g), c \div g)

\* roundToDecimal with Math.floor in place of Math.round
roundToDecimalTruncating(a, b, c, decimals) ==
    LET multiplier == 10 ^ decimals
        g == GCD(multiplier, c)
        b1 == b * (multiplier \div g)
        c1 == c \div g
        h == GCD(b1, c1)
    IN  (a \div (c1 \div h)) * (b1 \div h) + (((a % (c1 \div h)) * (b1 \div h)) \div (c1 \div h))

\* roundToDecimal(value, decimals) for value = a * b / c:
\* Math.round(value * 10^decimals), the result counted in units of 10^-decimals
roundToDecimal(a, b, c, decimals) ==
    LET multiplier == 10 ^ decimals
        g == GCD(multiplier, c)
    IN  MulDivRound(a, b * (multiplier \div g), c \div g)

-----------------------------------------------------------------------------
(* IEEE-754 binary64.  roundToDecimalIEEE is roundToDecimal computed as the  *)
(* program computes it, on doubles: a non-negative double is [m, e], worth   *)
(* m * 2^e, with m a natural number of exactly MantissaBits bits (or zero),  *)
(* held as the sequence of its digits in base LimbBase, the least            *)
(* significant first.  Every operation rounds to nearest, ties to even.      *)

LimbBase == 32768
LimbBits == 15
MantissaBits == 53

RECURSIVE ToBig(_)
ToBig(n) == IF n = 0 THEN <<>> ELSE <<n % LimbBase>> \o ToBig(n \div LimbBase)

RECURSIVE BigNorm(_)
BigNorm(a) ==
    IF a = <<>> THEN a
    ELSE IF a[Len(a)] = 0 THEN BigNorm(SubSeq(a, 1, Len(a) - 1)) ELSE a

\* a * k + c
RECURSIVE BigMulAdd(_, _, _)
BigMulAdd(a, k, c) ==
    IF a = <<>> THEN ToBig(c)
    ELSE LET t == Head(a) * k + c
         IN  <<t % LimbBase>> \o BigMulAdd(Tail(a), k, t \div LimbBase)

\* quotient and remainder of a by k, for 0 < k <= LimbBase
RECURSIVE BigDivModRaw(_, _)
BigDivModRaw(a, k) ==
    IF a = <<>> THEN [q |-> <<>>, r |-> 0]
    ELSE LET hi == BigDivModRaw(Tail(a), k)
             t == hi.r * LimbBase + Head(a)
         IN  [q |-> <<t \div k>> \o hi.q, r |-> t % k]

BigDivMod(a, k) ==
    LET d == BigDivModRaw(a, k) IN [q |-> BigNorm(d.q), r |-> d.r]

RECURSIVE BitLen(_)
BitLen(n) == IF n = 0 THEN 0 ELSE 1 + BitLen(n \div 2)

BigBits(a) == IF a = <<>> THEN 0 ELSE LimbBits * (Len(a) - 1) + BitLen(a[Len(a)])

BigOdd(a) == a # <<>> /\ a[1] % 2 = 1

\* a * 2^s
RECURSIVE BigShl(_, _)
BigShl(a, s) ==
    IF s = 0 \/ a = <<>> THEN a
    ELSE IF s >= LimbBits THEN BigShl(<<0>> \o a, s - LimbBits)
    ELSE BigMulAdd(a, 2 ^ s, 0)

\* bit i of a, counted from 0 at the least significant
BigBit(a, i) ==
    IF i \div LimbBits + 1 > Len(a) THEN 0
    ELSE (a[i \div LimbBits + 1] \div (2 ^ (i % LimbBits))) % 2

\* whether a has a bit set below bit i
BigLowBits(a, i) ==
    \/ \E j \in 1..Len(a) : j <= i \div LimbBits /\ a[j] # 0
    \/ /\ i \div LimbBits + 1 <= Len(a)
       /\ a[i \div LimbBits + 1] % (2 ^ (i % LimbBits)) # 0

\* a shifted right by s bits: the quotient, the last bit shifted out (guard)
\* and whether anything below it was not zero (sticky)
BigShr(a, s, sticky) ==
    IF s = 0 THEN [q |-> a, guard |-> FALSE, sticky |-> sticky]
    ELSE [q |-> IF s \div LimbBits >= Len(a) THEN <<>>
                ELSE BigDivMod(SubSeq(a, s \div LimbBits + 1, Len(a)), 2 ^ (s % LimbBits)).q,
          guard |-> BigBit(a, s - 1) = 1,
          sticky |-> sticky \/ BigLowBits(a, s - 1)]

RECURSIVE BigMulPow10(_, _)
BigMulPow10(a, n) == IF n = 0 THEN a ELSE BigMulPow10(BigMulAdd(a, 10, 0), n - 1)

\* a divided by 5^n, rounded down, and whether a remainder was dropped
RECURSIVE BigDivPow5(_, _, _)
BigDivPow5(a, n, sticky) ==
    IF n = 0 THEN [q |-> a, sticky |-> sticky]
    ELSE LET d == BigDivMod(a, 5)
         IN  BigDivPow5(d.q, n - 1, sticky \/ d.r # 0)

\* the double nearest to (p + f) * 2^e, ties to even, where 0 <= f < 1 and
\* f # 0 exactly if sticky; with sticky, p has more than MantissaBits bits
ToDouble(p, e, sticky) ==
    IF p = <<>> THEN [m |-> <<>>, e |-> 0]
    ELSE LET bits == BigBits(p)
         IN  IF bits <= MantissaBits
             THEN [m |-> BigShl(p, MantissaBits - bits), e |-> e - (MantissaBits - bits)]
             ELSE LET sh == BigShr(p, bits - MantissaBits, sticky)
                      up == sh.guard /\ (sh.sticky \/ BigOdd(sh.q))
                      q == IF up THEN BigMulAdd(sh.q, 1, 1) ELSE sh.q
                  IN  IF BigBits(q) > MantissaBits
                      THEN [m |-> BigDivMod(q, 2).q, e |-> e + (bits - MantissaBits) + 1]
                      ELSE [m |-> q, e |-> e + (bits - MantissaBits)]

\* value * multiplier for multiplier = Math.pow(10, decimals), which is exact
DoubleTimesPow10(x, decimals) == ToDouble(BigMulPow10(x.m, decimals), x.e, FALSE)

\* Math.round(v) for v >= 0: floor(v + 1/2), an integer
MathRoundDouble(v) ==
    IF v.m = <<>> THEN <<>>
    ELSE IF v.e >= 0 THEN BigShl(v.m, v.e)
    ELSE LET sh == BigShr(v.m, 0 - v.e, FALSE)
         IN  IF sh.guard THEN BigMulAdd(sh.q, 1, 1) ELSE sh.q

\* k / multiplier for the integer k and multiplier = 10^decimals = 5^decimals * 2^decimals
BigOverPow10(k, decimals) ==
    IF k = <<>> THEN [m |-> <<>>, e |-> 0]
    ELSE LET t == IF BigBits(k) < 80 THEN 80 - BigBits(k) ELSE 0
             d == BigDivPow5(BigShl(k, t), decimals, FALSE)
         IN  ToDouble(d.q, 0 - t - decimals, d.sticky)

\* roundToDecimal(value, decimals) on doubles:
\* Math.round(value * multiplier) / multiplier
roundToDecimalIEEE(value, decimals) ==
    BigOverPow10(MathRoundDouble(DoubleTimesPow10(value, decimals)), decimals)

\* the double a decimal literal with nine fractional digits denotes:
\* whole.fraction, 0 <= fraction < 10^9
DecimalLiteral(whole, fraction) ==
    BigOverPow10(BigMulAdd(BigMulAdd(BigMulAdd(ToBig(whole), 10000, 0), 10000, 0), 10, fraction),
                 9)

-----------------------------------------------------------------------------
(* Requests.  A CreateOrderRequest is [orderType, amount, assets], each     *)
(* asset a PortfolioAsset [symbol, type, allocation, amount, price].        *)

Symbols == <<"AAPL", "BTC", "GOLD", "SPY", "ETH">>
Types == <<"stock", "crypto", "commodity", "etf", "crypto">>

Asset(i, allocation, amount, price) ==
    [symbol |-> Symbols[i], type |-> Types[i], allocation |-> allocation,
     amount |-> amount, price |-> price]

\* asset.allocation || 0, asset.amount || 0
AllocationOrZero(asset) == IF asset.allocation = Undefined THEN 0 ELSE asset.allocation
AmountOrZero(asset) == IF asset.amount = Undefined THEN 0 ELSE asset.amount

-----------------------------------------------------------------------------
(* Request schema (validateBody(createOrderSchema) in front of POST /orders) *)

portfolioAssetSchema(asset) ==
    /\ asset.allocation # Undefined => asset.allocation >= 0 /\ asset.allocation <= 100 * PctScale
    /\ asset.amount # Undefined => asset.amount > 0
    /\ asset.price # Undefined => asset.price > 0
    /\ (asset.allocation # Undefined) # (asset.amount # Undefined)

portfolioSchema(assets) ==
    /\ \A i \in 1..Len(assets) : portfolioAssetSchema(assets[i])
    /\ Len(assets) >= 1
    /\ Len(assets) <= MAX_ASSETS_PER_PORTFOLIO
    /\ Cardinality({assets[i].symbol : i \in 1..Len(assets)}) = Len(assets)
    /\ ~ ( /\ \E i \in 1..Len(assets) : assets[i].allocation # Undefined
           /\ \E i \in 1..Len(assets) : assets[i].amount # Undefined )
    /\ assets[1].allocation # Undefined =>
           Abs(SumSeq([i \in 1..Len(assets) |-> AllocationOrZero(assets[i])]) - 100 * PctScale) < 1

createOrderSchema(request) ==
    /\ request.orderType \in {"BUY", "SELL"}
    /\ request.amount # Undefined =>
           /\ 100 * request.amount >= MoneyScale
           /\ \/ request.amount \div MoneyScale < MAX_ORDER_AMOUNT
              \/ request.amount \div MoneyScale = MAX_ORDER_AMOUNT /\ request.amount % MoneyScale = 0
    /\ portfolioSchema(request.assets)
    /\ IF request.assets[1].allocation # Undefined THEN request.amount # Undefined
       ELSE IF request.assets[1].amount # Undefined THEN request.amount = Undefined
       ELSE FALSE

-----------------------------------------------------------------------------
(* MarketService.  A DateTime in the market's zone is [day, ms]: the        *)
(* calendar day, counted from 2025-01-01 = 0, and the milliseconds since    *)
(* local midnight.  set({hour, minute, second: 0, millisecond: 0}) and      *)
(* plus({days: 1}) work on the local calendar, so a day is one step of day  *)
(* whatever the daylight-saving offset is.                                  *)

DayMs == 86400000

MARKET_OPEN_HOUR == 9
MARKET_OPEN_MINUTE == 30
MARKET_CLOSE_HOUR == 16
MARKET_CLOSE_MINUTE == 0
TRADING_DAYS == {1, 2, 3, 4, 5}

\* a holiday list with a closure of more than thirty days in a row:
\* 2025-07-21 to 2025-09-01
MARKET_HOLIDAYS_LONG_CLOSURE == {0, 19, 47, 107, 145, 169, 184, 330, 358} \cup (201..243)

\* 2025-01-01, 01-20, 02-17, 04-18, 05-26, 06-19, 07-04, 09-01, 11-27, 12-25
MARKET_HOLIDAYS_2025 == {0, 19, 47, 107, 145, 169, 184, 243, 330, 358}

maxAttempts == 30

DateTime(day, ms) == [day |-> day, ms |-> ms]

\* date.weekday: 1 = Monday .. 7 = Sunday; 2025-01-01 is a Wednesday
Weekday(date) == ((date.day + 2) % 7) + 1

\* date.set({hour, minute, second: 0, millisecond: 0})
SetTime(date, hour, minute) == DateTime(date.day, (hour * 60 + minute) * 60000)

\* date.plus({days})
PlusDays(date, days) == DateTime(date.day + days, date.ms)

\* a < b on DateTimes
Earlier(a, b) == a.day < b.day \/ (a.day = b.day /\ a.ms < b.ms)

\* DateTime.now().setZone(MARKET_CONFIG.TIMEZONE)
getCurrentMarketTime == DateTime(today + (now \div DayMs), now % DayMs)

isTradingDay(date) == Weekday(date) \in TRADING_DAYS

isHoliday(date) == date.day \in MARKET_HOLIDAYS_2025

\* isWithinTradingHours with the close time counted as open
isWithinTradingHoursUntilClose(date) ==
    LET marketOpen == SetTime(date, MARKET_OPEN_HOUR, MARKET_OPEN_MINUTE)
        marketClose == SetTime(date, MARKET_CLOSE_HOUR, MARKET_CLOSE_MINUTE)
    IN  ~Earlier(date, marketOpen) /\ ~Earlier(marketClose, date)

isWithinTradingHours(date) ==
    LET marketOpen == SetTime(date, MARKET_OPEN_HOUR, MARKET_OPEN_MINUTE)
        marketClose == SetTime(date, MARKET_CLOSE_HOUR, MARKET_CLOSE_MINUTE)
    IN  ~Earlier(date, marketOpen) /\ Earlier(date, marketClose)

isMarketOpen(timestamp) ==
    IF ~isTradingDay(timestamp) THEN FALSE
    ELSE IF isHoliday(timestamp) THEN FALSE
    ELSE IF ~isWithinTradingHours(timestamp) THEN FALSE
    ELSE TRUE

\* getNextMarketOpen going to the next day whatever the time of day
getNextMarketOpenTomorrow(current) ==
    SetTime(PlusDays(current, 1), MARKET_OPEN_HOUR, MARKET_OPEN_MINUTE)

getNextMarketOpen(current) ==
    LET todayOpen == SetTime(current, MARKET_OPEN_HOUR, MARKET_OPEN_MINUTE)
    IN  IF Earlier(current, todayOpen) /\ isTradingDay(current) /\ ~isHoliday(current)
        THEN todayOpen
        ELSE SetTime(PlusDays(current, 1), MARKET_OPEN_HOUR, MARKET_OPEN_MINUTE)

RECURSIVE getNextMonday(_)
getNextMonday(current) ==
    IF Weekday(current) # 1 THEN getNextMonday(PlusDays(current, 1))
    ELSE SetTime(current, MARKET_OPEN_HOUR, MARKET_OPEN_MINUTE)

\* the while loop of getNextTradingTime without the holiday test
RECURSIVE ScanTradingDayAnyWeekday(_, _)
ScanTradingDayAnyWeekday(current, attempts) ==
    IF attempts < maxAttempts
    THEN IF isTradingDay(current)
         THEN [found |-> TRUE, current |-> current, attempts |-> attempts]
         ELSE ScanTradingDayAnyWeekday(SetTime(PlusDays(current, 1),
                                               MARKET_OPEN_HOUR, MARKET_OPEN_MINUTE),
                                       attempts + 1)
    ELSE [found |-> FALSE, current |-> current, attempts |-> attempts]

\* the while loop of getNextTradingTime, from the candidate current with
\* attempts candidates rejected so far: the DateTime it returns, or the
\* candidate it leaves the loop with when the attempts are used up
RECURSIVE ScanTradingDay(_, _)
ScanTradingDay(current, attempts) ==
    IF attempts < maxAttempts
    THEN IF isTradingDay(current) /\ ~isHoliday(current)
         THEN [found |-> TRUE, current |-> current, attempts |-> attempts]
         ELSE ScanTradingDay(SetTime(PlusDays(current, 1), MARKET_OPEN_HOUR, MARKET_OPEN_MINUTE),
                             attempts + 1)
    ELSE [found |-> FALSE, current |-> current, attempts |-> attempts]

\* getNextTradingTime without the test for an open market
getNextTradingTimeScanning(timestamp) ==
    LET scan == ScanTradingDay(getNextMarketOpen(timestamp), 0)
    IN  IF scan.found THEN scan.current ELSE getNextMonday(scan.current)

getNextTradingTime(timestamp) ==
    IF isMarketOpen(timestamp) THEN timestamp
    ELSE LET scan == ScanTradingDay(getNextMarketOpen(timestamp), 0)
         IN  IF scan.found THEN scan.current ELSE getNextMonday(scan.current)

\* getMarketStatus(): isOpen, currentTime, nextOpenTime
getMarketStatus ==
    LET current == getCurrentMarketTime
        isOpen == isMarketOpen(current)
    IN  [isOpen |-> isOpen, currentTime |-> current,
         nextOpenTime |-> IF isOpen THEN Null ELSE getNextTradingTime(current)]

-----------------------------------------------------------------------------
(* OrderService *)

\* prepareOrderData deciding allocation mode without looking at request.amount
prepareOrderDataIgnoringTotal(request) ==
    LET assets == request.assets
        firstAsset == assets[1]
    IN  IF firstAsset.allocation # Undefined
        THEN [threw |-> FALSE, mode |-> "allocation",
              totalAmount |-> IF request.amount = Undefined THEN 0 ELSE request.amount,
              normalizedAssets |-> assets]
        ELSE IF firstAsset.amount # Undefined
        THEN LET totalAmount == SumSeq([i \in 1..Len(assets) |-> AmountOrZero(assets[i])])
             IN  [threw |-> FALSE, mode |-> "amount", totalAmount |-> totalAmount,
                  normalizedAssets |->
                      [i \in 1..Len(assets) |->
                          [symbol |-> assets[i].symbol, type |-> assets[i].type,
                           allocation |-> roundToDecimal(AmountOrZero(assets[i]), 100, totalAmount, 2),
                           amount |-> Undefined, price |-> assets[i].price]]]
        ELSE [threw |-> TRUE, mode |-> "none", totalAmount |-> 0, normalizedAssets |-> <<>>]

prepareOrderData(request) ==
    LET assets == request.assets
        firstAsset == assets[1]
    IN  IF firstAsset.allocation # Undefined /\ request.amount # Undefined
        THEN [threw |-> FALSE, mode |-> "allocation", totalAmount |-> request.amount,
              normalizedAssets |-> assets]
        ELSE IF firstAsset.amount # Undefined
        THEN LET totalAmount == SumSeq([i \in 1..Len(assets) |-> AmountOrZero(assets[i])])
             IN  [threw |-> FALSE, mode |-> "amount", totalAmount |-> totalAmount,
                  normalizedAssets |->
                      [i \in 1..Len(assets) |->
                          [symbol |-> assets[i].symbol, type |-> assets[i].type,
                           allocation |-> roundToDecimal(AmountOrZero(assets[i]), 100, totalAmount, 2),
                           amount |-> Undefined, price |-> assets[i].price]]]
        ELSE [threw |-> TRUE, mode |-> "none", totalAmount |-> 0, normalizedAssets |-> <<>>]

\* tolerance = 0.01 percent
tolerance == 1

ZeroAllocationSymbols(assets) ==
    LET idx == FilterSeq([i \in 1..Len(assets) |-> i],
                         {i \in 1..Len(assets) : assets[i].allocation = 0})
    IN  [k \in 1..Len(idx) |-> assets[idx[k]].symbol]

\* validatePortfolio with the tolerance comparison of the request schema
validatePortfolioStrict(assets) ==
    LET zeroAllocations == ZeroAllocationSymbols(assets)
        totalAllocation == SumSeq([i \in 1..Len(assets) |-> AllocationOrZero(assets[i])])
    IN  IF Len(zeroAllocations) > 0
        THEN [threw |-> TRUE, message |-> "zero allocation", symbols |-> zeroAllocations]
        ELSE IF Abs(totalAllocation - 100 * PctScale) >= tolerance
        THEN [threw |-> TRUE, message |-> "allocation sum", symbols |-> <<>>]
        ELSE [threw |-> FALSE, message |-> "", symbols |-> <<>>]

validatePortfolio(assets) ==
    LET zeroAllocations == ZeroAllocationSymbols(assets)
        totalAllocation == SumSeq([i \in 1..Len(assets) |-> AllocationOrZero(assets[i])])
    IN  IF Len(zeroAllocations) > 0
        THEN [threw |-> TRUE, message |-> "zero allocation", symbols |-> zeroAllocations]
        ELSE IF Abs(totalAllocation - 100 * PctScale) > tolerance
        THEN [threw |-> TRUE, message |-> "allocation sum", symbols |-> <<>>]
        ELSE [threw |-> FALSE, message |-> "", symbols |-> <<>>]

\* asset.price || ORDER_CONFIG.DEFAULT_ASSET_PRICE
PriceOrDefault(asset) ==
    IF asset.price = Undefined \/ asset.price = 0
    THEN DEFAULT_ASSET_PRICE * MoneyScale ELSE asset.price

\* a loop body that makes the last line's cost absorb the rounding as well
AssetOrderLineCostAdjusted(asset, isLast, allocatedAmount, totalAmount, precision) ==
    LET price == PriceOrDefault(asset)
        allocation == AllocationOrZero(asset)
        amount == IF isLast THEN totalAmount - allocatedAmount
                  ELSE (MoneyScale \div 100)
                       * roundToDecimal(allocation, totalAmount, 100 * PctScale * MoneyScale, 2)
        shares == roundToDecimal(amount, 1, price, precision)
        totalCost == IF isLast THEN amount
                     ELSE (MoneyScale \div 100)
                          * roundToDecimal(shares, price, (10 ^ precision) * MoneyScale, 2)
    IN  [symbol |-> asset.symbol, type |-> asset.type, allocation |-> allocation,
         price |-> price, amount |-> amount, shares |-> shares, totalCost |-> totalCost]

\* one pass of the loop of calculateAssetOrders: the AssetOrder of assets[i],
\* given allocatedAmount, the sum of the amounts of the lines before it
AssetOrderLine(asset, isLast, allocatedAmount, totalAmount, precision) ==
    LET price == PriceOrDefault(asset)
        allocation == AllocationOrZero(asset)
        amount == IF isLast THEN totalAmount - allocatedAmount
                  ELSE (MoneyScale \div 100)
                       * roundToDecimal(allocation, totalAmount, 100 * PctScale * MoneyScale, 2)
        shares == roundToDecimal(amount, 1, price, precision)
        totalCost == (MoneyScale \div 100)
                     * roundToDecimal(shares, price, (10 ^ precision) * MoneyScale, 2)
    IN  [symbol |-> asset.symbol, type |-> asset.type, allocation |-> allocation,
         price |-> price, amount |-> amount, shares |-> shares, totalCost |-> totalCost]

RECURSIVE AssetOrdersUpTo(_, _, _, _)
AssetOrdersUpTo(assets, totalAmount, precision, n) ==
    IF n = 0 THEN <<>>
    ELSE LET prior == AssetOrdersUpTo(assets, totalAmount, precision, n - 1)
             allocatedAmount == SumSeq([k \in 1..Len(prior) |-> prior[k].amount])
         IN  Append(prior, AssetOrderLine(assets[n], n = Len(assets), allocatedAmount,
                                          totalAmount, precision))

\* calculateAssetOrders without the last-asset branch: every line rounded alike
calculateAssetOrdersRoundLast(assets, totalAmount, precision) ==
    [i \in 1..Len(assets) |->
        AssetOrderLine(assets[i], FALSE, 0, totalAmount, precision)]

calculateAssetOrders(assets, totalAmount, precision) ==
    AssetOrdersUpTo(assets, totalAmount, precision, Len(assets))

\* a reconciliation check that compares the total with the amounts, not the costs
ReconciliationWarningOnAmounts(assetOrders, totalAmount) ==
    LET totalCost == SumSeq([k \in 1..Len(assetOrders) |-> assetOrders[k].amount])
    IN  100 * Abs(totalAmount - totalCost) > MoneyScale

\* the reconciliation check that ends calculateAssetOrders: difference > 0.01
ReconciliationWarning(assetOrders, totalAmount) ==
    LET totalCost == SumSeq([k \in 1..Len(assetOrders) |-> assetOrders[k].totalCost])
    IN  100 * Abs(totalAmount - totalCost) > MoneyScale

\* the market check of createOrder, setting next available time always
MarketCheckAlwaysNext(marketTime) ==
    LET canExecuteNow == isMarketOpen(marketTime)
    IN  [canExecuteNow |-> canExecuteNow,
         executionTime |-> IF canExecuteNow THEN marketTime
                           ELSE getNextTradingTime(marketTime),
         nextAvailableTime |-> getNextTradingTime(marketTime)]

\* the market check of createOrder: canExecuteNow, executionTime, nextAvailableTime
MarketCheck(marketTime) ==
    LET canExecuteNow == isMarketOpen(marketTime)
    IN  [canExecuteNow |-> canExecuteNow,
         executionTime |-> IF canExecuteNow THEN marketTime
                           ELSE getNextTradingTime(marketTime),
         nextAvailableTime |-> IF canExecuteNow THEN Null
                               ELSE getNextTradingTime(marketTime)]

\* OrderService.createOrder up to the order object; the caller saves it
createOrder(request, precision, id, time, marketTime) ==
    LET prepared == prepareOrderData(request)
        market == MarketCheck(marketTime)
        checked == validatePortfolio(prepared.normalizedAssets)
        assetOrders == calculateAssetOrders(prepared.normalizedAssets,
                                            prepared.totalAmount, precision)
    IN  IF prepared.threw
        THEN [threw |-> TRUE, code |-> "INVALID_PORTFOLIO",
              message |-> "Invalid portfolio configuration", symbols |-> <<>>,
              warned |-> FALSE, order |-> Null]
        ELSE IF checked.threw
        THEN [threw |-> TRUE, code |-> "INVALID_PORTFOLIO",
              message |-> checked.message, symbols |-> checked.symbols,
              warned |-> FALSE, order |-> Null]
        ELSE [threw |-> FALSE, code |-> "", message |-> "", symbols |-> <<>>,
              warned |-> ReconciliationWarning(assetOrders, prepared.totalAmount),
              order |-> [orderId |-> id,
                         orderType |-> request.orderType,
                         totalAmount |-> prepared.totalAmount,
                         portfolio |-> prepared.normalizedAssets,
                         assetOrders |-> assetOrders,
                         executionTime |-> market.executionTime,
                         canExecuteNow |-> market.canExecuteNow,
                         nextAvailableTime |-> market.nextAvailableTime,
                         createdAt |-> time,
                         decimalPrecision |-> precision,
                         mode |-> prepared.mode]]

-----------------------------------------------------------------------------
(* OrderRepository.  A Map is a function on the set of its keys; a          *)
(* Set<orderId> is the sequence of its members in insertion order, which is *)
(* the order JavaScript iterates it in.                                     *)

EmptyMap == <<>>

SetAdd(set, id) == IF id \in Range(set) THEN set ELSE Append(set, id)

\* if (!map.has(key)) map.set(key, new Set()); map.get(key).add(id)
MapAdd(map, key, id) ==
    IF key \in DOMAIN map THEN [map EXCEPT ![key] = SetAdd(@, id)]
    ELSE (key :> <<id>>) @@ map

RECURSIVE IndexSymbols(_, _, _)
IndexSymbols(map, assetOrders, id) ==
    IF assetOrders = <<>> THEN map
    ELSE IndexSymbols(MapAdd(map, Head(assetOrders).symbol, id), Tail(assetOrders), id)

RECURSIVE IndexAssetTypes(_, _, _)
IndexAssetTypes(map, assetOrders, id) ==
    IF assetOrders = <<>> THEN map
    ELSE IndexAssetTypes(IF Head(assetOrders).type # NoType
                         THEN MapAdd(map, Head(assetOrders).type, id) ELSE map,
                         Tail(assetOrders), id)

\* save indexing only the first asset of the order
saveFirstAssetOnly(order) ==
    /\ orders' = (order.orderId :> order) @@ orders
    /\ ordersByType' = MapAdd(ordersByType, order.orderType, order.orderId)
    /\ ordersBySymbol' = MapAdd(ordersBySymbol, order.assetOrders[1].symbol, order.orderId)
    /\ ordersByAssetType' = IndexAssetTypes(ordersByAssetType, order.assetOrders, order.orderId)
    /\ ordersByDate' = Append(ordersByDate, order.orderId)
    /\ statsCache' = Null

\* save leaving the stats cache as it is
saveKeepingCache(order) ==
    /\ orders' = (order.orderId :> order) @@ orders
    /\ ordersByType' = MapAdd(ordersByType, order.orderType, order.orderId)
    /\ ordersBySymbol' = IndexSymbols(ordersBySymbol, order.assetOrders, order.orderId)
    /\ ordersByAssetType' = IndexAssetTypes(ordersByAssetType, order.assetOrders, order.orderId)
    /\ ordersByDate' = Append(ordersByDate, order.orderId)
    /\ statsCache' = statsCache

save(order) ==
    /\ orders' = (order.orderId :> order) @@ orders
    /\ ordersByType' = MapAdd(ordersByType, order.orderType, order.orderId)
    /\ ordersBySymbol' = IndexSymbols(ordersBySymbol, order.assetOrders, order.orderId)
    /\ ordersByAssetType' = IndexAssetTypes(ordersByAssetType, order.assetOrders, order.orderId)
    /\ ordersByDate' = Append(ordersByDate, order.orderId)
    /\ statsCache' = Null

RECURSIVE IntersectFrom(_, _, _)
IntersectFrom(result, sorted, i) ==
    IF i > Len(sorted) THEN result
    ELSE IntersectFrom(FilterSeq(result, Range(sorted[i])), sorted, i + 1)

\* intersectSets returning the first set it is given whenever there is one
intersectSetsFirstGiven(sets) ==
    IF Len(sets) = 0 THEN <<>> ELSE sets[1]

intersectSets(sets) ==
    IF Len(sets) = 0 THEN <<>>
    ELSE IF Len(sets) = 1 THEN sets[1]
    ELSE LET sorted == ArraySort(sets, [i \in 1..Len(sets) |-> Len(sets[i])])
         IN  IntersectFrom(sorted[1], sorted, 2)

\* filterByDateRange with <= and >= in place of < and >
filterByDateRangeExclusive(orderIds, fromDate, toDate) ==
    IF fromDate = Undefined /\ toDate = Undefined THEN orderIds
    ELSE FilterSeq(orderIds,
            {id \in DOMAIN orders :
                /\ ~(fromDate # Undefined /\ orders[id].createdAt <= fromDate)
                /\ ~(toDate # Undefined /\ orders[id].createdAt >= toDate)})

filterByDateRange(orderIds, fromDate, toDate) ==
    IF fromDate = Undefined /\ toDate = Undefined THEN orderIds
    ELSE FilterSeq(orderIds,
            {id \in DOMAIN orders :
                /\ ~(fromDate # Undefined /\ orders[id].createdAt < fromDate)
                /\ ~(toDate # Undefined /\ orders[id].createdAt > toDate)})

\* sortByDate leaving the candidates in the order it was given them
sortByDateUnsorted(orderIds) == orderIds

\* sortByDate(orderIds, 'desc'): comparator timeB - timeA
sortByDate(orderIds) ==
    ArraySort(orderIds,
              [k \in 1..Len(orderIds) |->
                  IF orderIds[k] \in DOMAIN orders THEN 0 - orders[orderIds[k]].createdAt ELSE 0])

batchGetOrders(orderIds) ==
    LET found == FilterSeq(orderIds, DOMAIN orders)
    IN  [k \in 1..Len(found) |-> orders[found[k]]]

emptyResult(params) ==
    [orders |-> <<>>,
     pagination |-> [total |-> 0,
                     limit |-> IF params.limit = Undefined \/ params.limit = 0
                               THEN DefaultLimit ELSE params.limit,
                     offset |-> IF params.offset = Undefined THEN 0 ELSE params.offset,
                     hasMore |-> FALSE]]

\* the pagination step with hasMore: offset + limit <= total
PaginateHasMoreInclusive(orderIds, params) ==
    LET limit == IF params.limit = Undefined \/ params.limit = 0
                 THEN DefaultLimit ELSE params.limit
        offset == IF params.offset = Undefined THEN 0 ELSE params.offset
        total == Len(orderIds)
    IN  [paginatedIds |-> ArraySlice(orderIds, offset, offset + limit),
         pagination |-> [total |-> total, limit |-> limit, offset |-> offset,
                         hasMore |-> offset + limit <= total]]

\* the pagination step of findAll: limit, offset, total, slice, hasMore
Paginate(orderIds, params) ==
    LET limit == IF params.limit = Undefined \/ params.limit = 0
                 THEN DefaultLimit ELSE params.limit
        offset == IF params.offset = Undefined THEN 0 ELSE params.offset
        total == Len(orderIds)
    IN  [paginatedIds |-> ArraySlice(orderIds, offset, offset + limit),
         pagination |-> [total |-> total, limit |-> limit, offset |-> offset,
                         hasMore |-> offset + limit < total]]

NoFilter == ""

\* findAll skipping a filter whose value has no id set, in place of returning
\* the empty result
findAllSkippingAbsent(params) ==
    LET filters ==
            (IF params.orderType # NoFilter /\ params.orderType \in DOMAIN ordersByType
             THEN <<ordersByType[params.orderType]>> ELSE <<>>)
            \o (IF params.symbol # NoFilter /\ params.symbol \in DOMAIN ordersBySymbol
                THEN <<ordersBySymbol[params.symbol]>> ELSE <<>>)
            \o (IF params.assetType # NoFilter /\ params.assetType \in DOMAIN ordersByAssetType
                THEN <<ordersByAssetType[params.assetType]>> ELSE <<>>)
        candidates == IF Len(filters) > 0 THEN intersectSets(filters) ELSE ordersByDate
        dated == IF params.fromDate # Undefined \/ params.toDate # Undefined
                 THEN filterByDateRange(candidates, params.fromDate, params.toDate)
                 ELSE candidates
        page == Paginate(sortByDate(dated), params)
    IN  [orders |-> batchGetOrders(page.paginatedIds), pagination |-> page.pagination]

findAll(params) ==
    LET missing ==
            \/ params.orderType # NoFilter /\ params.orderType \notin DOMAIN ordersByType
            \/ params.symbol # NoFilter /\ params.symbol \notin DOMAIN ordersBySymbol
            \/ params.assetType # NoFilter /\ params.assetType \notin DOMAIN ordersByAssetType
        filters ==
            (IF params.orderType # NoFilter THEN <<ordersByType[params.orderType]>> ELSE <<>>)
            \o (IF params.symbol # NoFilter THEN <<ordersBySymbol[params.symbol]>> ELSE <<>>)
            \o (IF params.assetType # NoFilter
                THEN <<ordersByAssetType[params.assetType]>> ELSE <<>>)
        candidates == IF Len(filters) > 0 THEN intersectSets(filters) ELSE ordersByDate
        dated == IF params.fromDate # Undefined \/ params.toDate # Undefined
                 THEN filterByDateRange(candidates, params.fromDate, params.toDate)
                 ELSE candidates
        page == Paginate(sortByDate(dated), params)
    IN  IF missing THEN emptyResult(params)
        ELSE [orders |-> batchGetOrders(page.paginatedIds), pagination |-> page.pagination]

RECURSIVE SumVolume(_)
SumVolume(ids) ==
    IF ids = {} THEN 0
    ELSE LET id == CHOOSE x \in ids : TRUE
         IN  orders[id].totalAmount + SumVolume(ids \ {id})

\* the statistics getStats computes when it does not answer from the cache
ComputeStats ==
    LET totalVolume == SumVolume(DOMAIN orders)
        size == Cardinality(DOMAIN orders)
    IN  [totalOrders |-> size,
         ordersByType |-> [k \in DOMAIN ordersByType |-> Len(ordersByType[k])],
         ordersByAssetType |-> [k \in DOMAIN ordersByAssetType |-> Len(ordersByAssetType[k])],
         uniqueSymbols |-> Cardinality(DOMAIN ordersBySymbol),
         totalVolume |-> totalVolume,
         \* totalVolume / size, as the fraction <<numerator, denominator>>
         averageOrderSize |-> IF size > 0 THEN <<totalVolume, size>> ELSE <<0, 1>>]

-----------------------------------------------------------------------------
(* Operations *)

NoResponse == [kind |-> "none"]

\* the OrderRepository constructor
StoreEmptyAtStart ==
    /\ orders = EmptyMap
    /\ ordersByType = EmptyMap
    /\ ordersBySymbol = EmptyMap
    /\ ordersByAssetType = EmptyMap
    /\ ordersByDate = <<>>
    /\ statsCache = Null

Init ==
    /\ StoreEmptyAtStart
    /\ decimalPrecision = DEFAULT_DECIMAL_PRECISION
    /\ now = 0
    /\ today = 0
    /\ nextId = 0
    /\ response = NoResponse

storeVars == <<orders, ordersByType, ordersBySymbol, ordersByAssetType, ordersByDate, statsCache>>

\* createOrder dropping the stats cache before it validates the portfolio
CreateOrderOutcomeDroppingCache(request, via) ==
    LET result == createOrder(request, decimalPrecision, nextId + 1, now,
                              getCurrentMarketTime)
    IN  /\ response' = [kind |-> "createOrder", via |-> via, request |-> request,
                        threw |-> result.threw, code |-> result.code,
                        message |-> result.message, symbols |-> result.symbols,
                        warned |-> result.warned, order |-> result.order]
        /\ IF result.threw
           THEN /\ statsCache' = Null
                /\ UNCHANGED <<orders, ordersByType, ordersBySymbol, ordersByAssetType,
                               ordersByDate, nextId>>
           ELSE save(result.order) /\ nextId' = nextId + 1
        /\ UNCHANGED <<decimalPrecision, now, today>>

\* OrderService.createOrder(request): split, build the order, save it
CreateOrderOutcome(request, via) ==
    LET result == createOrder(request, decimalPrecision, nextId + 1, now,
                              getCurrentMarketTime)
    IN  /\ response' = [kind |-> "createOrder", via |-> via, request |-> request,
                        threw |-> result.threw, code |-> result.code,
                        message |-> result.message, symbols |-> result.symbols,
                        warned |-> result.warned, order |-> result.order]
        /\ IF result.threw
           THEN UNCHANGED <<storeVars, nextId>>
           ELSE save(result.order) /\ nextId' = nextId + 1
        /\ UNCHANGED <<decimalPrecision, now, today>>

\* a direct call of OrderService.createOrder
ServiceCreateOrder(request) ==
    /\ response = NoResponse
    /\ nextId < MaxOrders
    /\ CreateOrderOutcome(request, "service")

\* POST /orders: validateBody(createOrderSchema), then OrderController.createOrder
PostOrders(request) ==
    /\ response = NoResponse
    /\ nextId < MaxOrders
    /\ IF createOrderSchema(request)
       THEN CreateOrderOutcome(request, "http")
       ELSE /\ response' = [kind |-> "createOrder", via |-> "http", request |-> request,
                            threw |-> TRUE, code |-> "VALIDATION_ERROR",
                            message |-> "Invalid request data", symbols |-> <<>>,
                            warned |-> FALSE, order |-> Null]
            /\ UNCHANGED <<storeVars, nextId, decimalPrecision, now, today>>

\* getOrders with findAll sorting the ordered list itself, not a copy of it
GetOrdersSortingTheList(params) ==
    /\ response = NoResponse
    /\ response' = [kind |-> "getOrders", params |-> params, result |-> findAll(params)]
    /\ ordersByDate' = sortByDate(ordersByDate)
    /\ UNCHANGED <<orders, ordersByType, ordersBySymbol, ordersByAssetType, statsCache,
                   decimalPrecision, now, nextId, today>>

\* OrderService.getOrders(params) -> OrderRepository.findAll(params)
GetOrders(params) ==
    /\ response = NoResponse
    /\ response' = [kind |-> "getOrders", params |-> params, result |-> findAll(params)]
    /\ UNCHANGED <<storeVars, decimalPrecision, now, nextId, today>>

\* getOrderById answering with findById: null for an unknown id, nothing thrown
GetOrderByIdOrNull(orderId) ==
    /\ response = NoResponse
    /\ response' = [kind |-> "getOrderById", orderId |-> orderId, threw |-> FALSE, code |-> "",
                    order |-> IF orderId \in DOMAIN orders THEN orders[orderId] ELSE Null]
    /\ UNCHANGED <<storeVars, decimalPrecision, now, nextId, today>>

\* OrderService.getOrderById(orderId) -> OrderRepository.findByIdOrThrow(orderId)
GetOrderById(orderId) ==
    /\ response = NoResponse
    /\ response' = IF orderId \in DOMAIN orders
                   THEN [kind |-> "getOrderById", orderId |-> orderId, threw |-> FALSE,
                         code |-> "", order |-> orders[orderId]]
                   ELSE [kind |-> "getOrderById", orderId |-> orderId, threw |-> TRUE,
                         code |-> "ORDER_NOT_FOUND", order |-> Null]
    /\ UNCHANGED <<storeVars, decimalPrecision, now, nextId, today>>

\* getStats answering from a cache whose age is the ttl or less
GetStatsAtTtl ==
    /\ response = NoResponse
    /\ IF statsCache # Null /\ now - statsCache.timestamp <= statsCache.ttl
       THEN /\ response' = [kind |-> "getStats", cached |-> TRUE, data |-> statsCache.data]
            /\ UNCHANGED statsCache
       ELSE /\ response' = [kind |-> "getStats", cached |-> FALSE, data |-> ComputeStats]
            /\ statsCache' = [kind |-> "cache", data |-> ComputeStats,
                              timestamp |-> now, ttl |-> StatsTtl]
    /\ UNCHANGED <<orders, ordersByType, ordersBySymbol, ordersByAssetType, ordersByDate,
                   decimalPrecision, now, nextId, today>>

\* OrderRepository.getStats()
GetStats ==
    /\ response = NoResponse
    /\ IF statsCache # Null /\ now - statsCache.timestamp < statsCache.ttl
       THEN /\ response' = [kind |-> "getStats", cached |-> TRUE, data |-> statsCache.data]
            /\ UNCHANGED statsCache
       ELSE /\ response' = [kind |-> "getStats", cached |-> FALSE, data |-> ComputeStats]
            /\ statsCache' = [kind |-> "cache", data |-> ComputeStats,
                              timestamp |-> now, ttl |-> StatsTtl]
    /\ UNCHANGED <<orders, ordersByType, ordersBySymbol, ordersByAssetType, ordersByDate,
                   decimalPrecision, now, nextId, today>>

\* clear leaving the ordered list as it is
ClearKeepingDateIndex ==
    /\ response = NoResponse
    /\ orders' = EmptyMap
    /\ ordersByType' = EmptyMap
    /\ ordersBySymbol' = EmptyMap
    /\ ordersByAssetType' = EmptyMap
    /\ statsCache' = Null
    /\ response' = [kind |-> "clear"]
    /\ UNCHANGED <<ordersByDate, decimalPrecision, now, nextId, today>>

\* OrderRepository.clear()
Clear ==
    /\ response = NoResponse
    /\ orders' = EmptyMap
    /\ ordersByType' = EmptyMap
    /\ ordersBySymbol' = EmptyMap
    /\ ordersByAssetType' = EmptyMap
    /\ ordersByDate' = <<>>
    /\ statsCache' = Null
    /\ response' = [kind |-> "clear"]
    /\ UNCHANGED <<decimalPrecision, now, nextId, today>>

\* setDecimalPrecision stamping the new precision on the orders already stored
SetDecimalPrecisionReapplying(precision) ==
    /\ response = NoResponse
    /\ decimalPrecision' = precision
    /\ orders' = [id \in DOMAIN orders |-> [orders[id] EXCEPT !.decimalPrecision = precision]]
    /\ UNCHANGED <<ordersByType, ordersBySymbol, ordersByAssetType, ordersByDate, statsCache,
                   now, nextId, response, today>>

\* PUT /config/precision -> ConfigRepository.setDecimalPrecision(precision)
SetDecimalPrecision(precision) ==
    /\ response = NoResponse
    /\ decimalPrecision' = precision
    /\ UNCHANGED <<storeVars, now, nextId, response, today>>

\* the clock advances
Tick ==
    /\ now < MaxTicks * TickMs
    /\ now' = now + TickMs
    /\ UNCHANGED <<storeVars, decimalPrecision, nextId, response, today>>

\* the caller takes the response
Deliver ==
    /\ response # NoResponse
    /\ response' = NoResponse
    /\ UNCHANGED <<storeVars, decimalPrecision, now, nextId, today>>

\* a direct call of MarketService.isMarketOpen(timestamp)
CallIsMarketOpen(timestamp) ==
    /\ response = NoResponse
    /\ response' = [kind |-> "isMarketOpen", timestamp |-> timestamp,
                    result |-> isMarketOpen(timestamp)]
    /\ UNCHANGED <<storeVars, decimalPrecision, now, nextId, today>>

\* a direct call of MarketService.getNextTradingTime(timestamp); first and
\* attempts tell where its loop started and how many candidates it rejected
CallGetNextTradingTime(timestamp) ==
    LET scan == ScanTradingDay(getNextMarketOpen(timestamp), 0)
    IN  /\ response = NoResponse
        /\ response' = [kind |-> "getNextTradingTime", timestamp |-> timestamp,
                        result |-> getNextTradingTime(timestamp),
                        first |-> getNextMarketOpen(timestamp),
                        attempts |-> scan.attempts, found |-> scan.found]
        /\ UNCHANGED <<storeVars, decimalPrecision, now, nextId, today>>

\* GET /market/status -> MarketService.getMarketStatus()
GetMarketStatus ==
    /\ response = NoResponse
    /\ response' = [kind |-> "getMarketStatus", status |-> getMarketStatus]
    /\ UNCHANGED <<storeVars, decimalPrecision, now, nextId, today>>

\* a call of roundToDecimal(value, decimals)
CallRoundToDecimal(value, decimals) ==
    /\ response = NoResponse
    /\ response' = [kind |-> "roundToDecimal", value |-> value, decimals |-> decimals,
                    result |-> roundToDecimalIEEE(value, decimals)]
    /\ UNCHANGED <<storeVars, decimalPrecision, now, nextId, today>>

\* a call of roundToDecimal on the result of the last call, with its decimals
CallRoundToDecimalAgain ==
    /\ response.kind = "roundToDecimal"
    /\ response' = [kind |-> "roundToDecimalAgain", value |-> response.result,
                    decimals |-> response.decimals,
                    result |-> roundToDecimalIEEE(response.result, response.decimals)]
    /\ UNCHANGED <<storeVars, decimalPrecision, now, nextId, today>>

-----------------------------------------------------------------------------
(* Inputs *)

\* all sequences of length 1..n over the set S
RECURSIVE SeqsUpTo(_, _)
SeqsUpTo(S, n) ==
    IF n = 0 THEN {<<>>}
    ELSE LET shorter == SeqsUpTo(S, n - 1)
         IN  shorter \cup {Append(q, x) : q \in {r \in shorter : Len(r) = n - 1}, x \in S}

NonEmptySeqs(S, n) == SeqsUpTo(S, n) \ {<<>>}

AllocValues == {0, 1, 3333, 3334, 4999, 5000, 9999, 10000}
TotalValues == {15, 30, 100000, 100005}
AmountValues == {10, 100000, 200000, 400000}
PriceValue == 3000

\* assets 1..k carry a price, the others take the default
PriceAt(i, k) == IF i <= k THEN PriceValue ELSE Undefined

AllocationRequests ==
    {[orderType |-> "BUY", amount |-> total,
      assets |-> [i \in 1..Len(a) |-> Asset(i, a[i], Undefined, PriceAt(i, k))]] :
        a \in NonEmptySeqs(AllocValues, MaxAssets),
        total \in TotalValues \cup {Undefined},
        k \in 0..1}

AmountRequests ==
    {[orderType |-> "SELL", amount |-> total,
      assets |-> [i \in 1..Len(a) |-> Asset(i, Undefined, a[i], PriceAt(i, k))]] :
        a \in NonEmptySeqs(AmountValues, MaxAssets),
        total \in {Undefined, 100000},
        k \in 0..1}

\* portfolios whose assets carry an allocation, an amount, both or neither
MixedRequests ==
    {[orderType |-> "BUY", amount |-> total,
      assets |-> [i \in 1..Len(f) |-> Asset(i, f[i][1], f[i][2], Undefined)]] :
        f \in NonEmptySeqs({Undefined, 5000, 10000} \X {Undefined, 100000}, 2),
        total \in {Undefined, 100000}}

\* README "Create Multi-Asset Order": total 10000, AAPL 40, BTC 30 at 45000,
\* GOLD 20 at 2000, SPY 10
ScenarioA ==
    [orderType |-> "BUY", amount |-> 10000 * MoneyScale,
     assets |-> << Asset(1, 4000, Undefined, Undefined),
                   Asset(2, 3000, Undefined, 45000 * MoneyScale),
                   Asset(3, 2000, Undefined, 2000 * MoneyScale),
                   Asset(4, 1000, Undefined, Undefined) >>]

\* TEST_EXAMPLES "Invalid: Allocations Don't Sum to 100%": 60 + 30
ScenarioB ==
    [orderType |-> "BUY", amount |-> 1000 * MoneyScale,
     assets |-> << Asset(1, 6000, Undefined, Undefined),
                   Asset(2, 3000, Undefined, Undefined) >>]

\* TEST_EXAMPLES "Invalid: Mixed Input Modes": AAPL allocation 50, TSLA amount 500
ScenarioMixed ==
    [orderType |-> "BUY", amount |-> Undefined,
     assets |-> << Asset(1, 5000, Undefined, Undefined),
                   Asset(2, Undefined, 500 * MoneyScale, Undefined) >>]

SplitRequests ==
    AllocationRequests \cup AmountRequests \cup MixedRequests
        \cup {ScenarioA, ScenarioB, ScenarioMixed}

\* the requests the store is filled from
StoreRequests ==
    { [orderType |-> "BUY", amount |-> 100000,
       assets |-> << Asset(1, 6000, Undefined, Undefined),
                     Asset(2, 4000, Undefined, 45000 * MoneyScale) >>],
      [orderType |-> "SELL", amount |-> Undefined,
       assets |-> << Asset(2, Undefined, 100000, Undefined),
                     Asset(5, Undefined, 300000, Undefined) >>],
      [orderType |-> "BUY", amount |-> 30,
       assets |-> << [Asset(4, 10000, Undefined, Undefined) EXCEPT !.type = NoType] >>],
      [orderType |-> "SELL", amount |-> Undefined,
       assets |-> << Asset(1, Undefined, 10, Undefined),
                     Asset(3, Undefined, 400000, Undefined) >>],
      ScenarioB }

QueryDates == {Undefined, TickMs, 2 * TickMs}

\* every combination of the five filters, with the default page
FilterQueries ==
    [orderType : {NoFilter, "BUY", "SELL"},
     symbol : {NoFilter, "AAPL", "BTC", "TSLA"},
     assetType : {NoFilter, "crypto", "stock", "bond"},
     fromDate : QueryDates, toDate : QueryDates,
     limit : {Undefined}, offset : {Undefined}]

\* every page, with few filters
PageQueries ==
    [orderType : {NoFilter, "BUY"}, symbol : {NoFilter}, assetType : {NoFilter},
     fromDate : {Undefined, TickMs}, toDate : {Undefined},
     limit : {Undefined, 1, 2}, offset : {Undefined, 1, 2, 3}]

QueryParams == FilterQueries \cup PageQueries

\* the queries of the specification of all operations
FewQueryParams ==
    [orderType : {NoFilter, "BUY"}, symbol : {NoFilter, "BTC"}, assetType : {NoFilter},
     fromDate : {Undefined, TickMs}, toDate : {Undefined},
     limit : {Undefined, 1}, offset : {Undefined, 1}]

\* the requests the store is filled from when it is queried
QueryRequests ==
    { [orderType |-> "BUY", amount |-> 100000,
       assets |-> << Asset(1, 6000, Undefined, Undefined),
                     Asset(2, 4000, Undefined, 45000 * MoneyScale) >>],
      [orderType |-> "SELL", amount |-> Undefined,
       assets |-> << Asset(2, Undefined, 100000, Undefined),
                     Asset(5, Undefined, 300000, Undefined) >>] }

\* the calendar days of the model: from DaysBefore days before 2025-01-01
\* to LastDay days after it
DaysBefore == 7
LastDay == 372
CalendarDays == (0 - DaysBefore)..LastDay

\* midnight, the last millisecond before the open, the open, noon, the last
\* millisecond before the close, the close, the last millisecond of the day
TimesOfDay ==
    LET open == (MARKET_OPEN_HOUR * 60 + MARKET_OPEN_MINUTE) * 60000
        close == (MARKET_CLOSE_HOUR * 60 + MARKET_CLOSE_MINUTE) * 60000
    IN  {0, open - 1, open, DayMs \div 2, close - 1, close, DayMs - 1}

Instants == {DateTime(day, ms) : day \in CalendarDays, ms \in TimesOfDay}

\* the requests orders are created from when the market is looked at
MarketRequests == {ScenarioA, ScenarioB}

\* the values that are rounded: whole.fraction with nine fractional digits
WholeParts == {0, 1, 199, 3015, 36527630, 43231210, 99999999}
FractionParts == {0, 5000000, 125000000, 254230715, 365802355, 499999999, 500000000, 999999999}
RoundedValues == {DecimalLiteral(whole, fraction) : whole \in WholeParts, fraction \in FractionParts}

\* the request orders are created from while the precision is changed:
\* total 100, AAPL 33.33 % at a price of PriceValue, BTC 66.67 % at the default
PrecisionRequests ==
    { [orderType |-> "BUY", amount |-> 100 * MoneyScale,
       assets |-> << Asset(1, 3333, Undefined, PriceValue),
                     Asset(2, 6667, Undefined, Undefined) >>] }

\* the query without filters, with the default page
PrecisionQueries ==
    { [orderType |-> NoFilter, symbol |-> NoFilter, assetType |-> NoFilter,
       fromDate |-> Undefined, toDate |-> Undefined,
       limit |-> Undefined, offset |-> Undefined] }

\* an allocation request without a total: no mode applies
ScenarioNoMode ==
    [orderType |-> "BUY", amount |-> Undefined,
     assets |-> << Asset(1, 10000, Undefined, Undefined) >>]

\* a zero allocation beside one of 100 %
ScenarioZero ==
    [orderType |-> "BUY", amount |-> 100 * MoneyScale,
     assets |-> << Asset(1, 0, Undefined, Undefined),
                   Asset(2, 10000, Undefined, Undefined) >>]

\* the requests createOrder is called with when its failures are looked at:
\* two it accepts and one for each way validation fails
FailureRequests == QueryRequests \cup {ScenarioNoMode, ScenarioZero, ScenarioB}

-----------------------------------------------------------------------------
(* Specifications *)

Idle == response = NoResponse

\* every operation of the service and the repository
Next ==
    \/ Idle /\ \E request \in StoreRequests : PostOrders(request)
    \/ Idle /\ \E params \in FewQueryParams : GetOrders(params)
    \/ Idle /\ \E orderId \in 1..MaxOrders : GetOrderById(orderId)
    \/ GetStats
    \/ Clear
    \/ Tick
    \/ Deliver

Spec == Init /\ [][Next]_vars

\* the store under queries
QueryNext ==
    \/ Idle /\ \E request \in QueryRequests : PostOrders(request)
    \/ Idle /\ \E params \in QueryParams : GetOrders(params)
    \/ Clear
    \/ Tick
    \/ Deliver

QuerySpec == Init /\ [][QueryNext]_vars

\* one order creation, at any configured precision, on any request
SplitNext ==
    \/ Idle /\ nextId = 0 /\ decimalPrecision = DEFAULT_DECIMAL_PRECISION
            /\ \E precision \in MIN_DECIMAL_PRECISION..MaxPrecision :
                   precision # decimalPrecision /\ SetDecimalPrecision(precision)
    \/ Idle /\ nextId = 0 /\ \E request \in SplitRequests : ServiceCreateOrder(request)
    \/ Idle /\ nextId = 0 /\ \E request \in SplitRequests : PostOrders(request)

SplitSpec == Init /\ [][SplitNext]_vars

\* the calendar functions of MarketService, called on any instant
CalendarNext ==
    \/ Idle /\ \E timestamp \in Instants : CallIsMarketOpen(timestamp)
    \/ Idle /\ \E timestamp \in Instants : CallGetNextTradingTime(timestamp)

CalendarSpec == Init /\ [][CalendarNext]_vars

\* the service started at any instant of the calendar
MarketInit ==
    /\ StoreEmptyAtStart
    /\ decimalPrecision = DEFAULT_DECIMAL_PRECISION
    /\ now \in TimesOfDay
    /\ today \in CalendarDays
    /\ nextId = 0
    /\ response = NoResponse

\* one order creation or one status request at that instant
MarketNext ==
    \/ Idle /\ nextId = 0 /\ \E request \in MarketRequests : ServiceCreateOrder(request)
    \/ GetMarketStatus
    \/ Deliver

MarketSpec == MarketInit /\ [][MarketNext]_vars

\* roundToDecimal applied once and twice
RoundNext ==
    \/ Idle /\ \E value \in RoundedValues :
                   \E decimals \in MIN_DECIMAL_PRECISION..MAX_DECIMAL_PRECISION :
                       CallRoundToDecimal(value, decimals)
    \/ CallRoundToDecimalAgain

RoundSpec == Init /\ [][RoundNext]_vars

\* order creations, queries and stats requests while the precision is changed
PrecisionNext ==
    \/ \E precision \in MIN_DECIMAL_PRECISION..MaxPrecision :
           precision # decimalPrecision /\ SetDecimalPrecision(precision)
    \/ \E request \in PrecisionRequests : PostOrders(request)
    \/ \E params \in PrecisionQueries : GetOrders(params)
    \/ GetStats
    \/ Deliver

PrecisionSpec == Init /\ [][PrecisionNext]_vars

\* createOrder on requests it accepts and requests it rejects, with stats
\* requests and clock ticks between
FailureNext ==
    \/ \E request \in FailureRequests : ServiceCreateOrder(request)
    \/ GetStats
    \/ Tick
    \/ Deliver

FailureSpec == Init /\ [][FailureNext]_vars

-----------------------------------------------------------------------------
(* Properties.  What an operation returned is read from response, in the   *)
(* state right after the operation.                                         *)

\* the last operation was an order creation that returned an order
Created == response.kind = "createOrder" /\ ~response.threw

\* the request of the last order creation was answered by OrderService
Split == response.kind = "createOrder" /\ response.code # "VALIDATION_ERROR"

\* q = Math.round(a * b / c), said without computing it: q - 1/2 <= a*b/c < q + 1/2
IsMathRound(q, a, b, c) ==
    LET g == GCD(b, c)
        b1 == b \div g
        c1 == c \div g
        d == q - (a \div c1) * b1
        rest == (a % c1) * b1
    IN  (2 * d - 1) * c1 <= 2 * rest /\ 2 * rest < (2 * d + 1) * c1

HasAllocation(asset) == asset.allocation # Undefined
HasAmount(asset) == asset.amount # Undefined
AllHaveAllocation(request) == \A i \in 1..Len(request.assets) : HasAllocation(request.assets[i])
AllHaveAmount(request) == \A i \in 1..Len(request.assets) : HasAmount(request.assets[i])
TotalSupplied(request) == request.amount # Undefined

LineAmounts(order) == [k \in 1..Len(order.assetOrders) |-> order.assetOrders[k].amount]
LineCosts(order) == [k \in 1..Len(order.assetOrders) |-> order.assetOrders[k].totalCost]

WellFormedMode(request) ==
    \/ /\ AllHaveAllocation(request)
       /\ \A i \in 1..Len(request.assets) : ~HasAmount(request.assets[i])
       /\ TotalSupplied(request)
    \/ /\ AllHaveAmount(request)
       /\ \A i \in 1..Len(request.assets) : ~HasAllocation(request.assets[i])
       /\ ~TotalSupplied(request)

NormalizedAllocations(request) ==
    LET assets == prepareOrderData(request).normalizedAssets
    IN  [i \in 1..Len(assets) |-> assets[i].allocation]

AmountModeRequest(request) ==
    /\ ~TotalSupplied(request)
    /\ \A i \in 1..Len(request.assets) :
           /\ HasAmount(request.assets[i])
           /\ request.assets[i].amount > 0
           /\ ~HasAllocation(request.assets[i])

\* C8 as the specification states it: an order split in amount mode gives
\* every asset a line whose dollarAmount is the asset's original dollarAmount
\* to within 0.01.
C8_AsStated ==
    (Created /\ AmountModeRequest(response.request)) =>
        \A k \in 1..Len(response.request.assets) :
            100 * Abs(response.order.assetOrders[k].amount - response.request.assets[k].amount)
                <= MoneyScale

\* C9 as the specification states it: the costs of the lines of an order add
\* up to requestedTotal to within 0.01.
C9_AsStated ==
    Created =>
        100 * Abs(response.order.totalAmount - SumSeq(LineCosts(response.order))) <= MoneyScale

\* C9, amended: the split does not reconcile the costs with requestedTotal.
\* It logs a warning exactly when they differ by more than 0.01 and returns
\* the lines as it computed them.  What holds of every line is that its cost
\* differs from its dollarAmount by at most unitPrice x 0.5 x 10^-precision
\* + 0.005; the costs of Scenario A add up to 10015, not to 10000.
C9_CostDrift ==
    Created =>
        LET order == response.order
            lines == order.assetOrders
            drift == Abs(order.totalAmount - SumSeq(LineCosts(order)))
        IN  /\ response.warned <=> 100 * drift > MoneyScale
            /\ \A k \in 1..Len(lines) :
                   2 * (10 ^ order.decimalPrecision) * Abs(lines[k].totalCost - lines[k].amount)
                       <= lines[k].price + (MoneyScale \div 100) * (10 ^ order.decimalPrecision)
            /\ (response.request = ScenarioA /\ order.decimalPrecision = 3) =>
                   /\ SumSeq(LineCosts(order)) = 10015 * MoneyScale
                   /\ response.warned

\* C9 witness: Scenario A is split at precision 3 and its costs are off by 15
C9_Witness ==
    /\ Created
    /\ response.request = ScenarioA
    /\ response.order.decimalPrecision = 3
    /\ response.warned
    /\ SumSeq(LineCosts(response.order)) - response.order.totalAmount = 15 * MoneyScale

\* C10: every line is priced at the caller's unitPrice, or at 100 when the
\* caller gave none; its units are dollarAmount / unitPrice rounded to the
\* configured precision and its cost is units x unitPrice rounded to cents,
\* on the last line as on the others.  Scenario A at precision 3 gives the
\* units 40, 0.067, 1, 10 and the costs 4000, 3015, 2000, 1000.
C10_UnitsAndCost ==
    Created =>
        LET order == response.order
            lines == order.assetOrders
            precision == order.decimalPrecision
        IN  /\ precision = decimalPrecision
            /\ \A k \in 1..Len(lines) :
                   /\ lines[k].price = IF response.request.assets[k].price = Undefined
                                       THEN 100 * MoneyScale
                                       ELSE response.request.assets[k].price
                   /\ IsMathRound(lines[k].shares, lines[k].amount, 10 ^ precision,
                                  lines[k].price)
                   /\ lines[k].totalCost % (MoneyScale \div 100) = 0
                   /\ IsMathRound(lines[k].totalCost \div (MoneyScale \div 100),
                                  lines[k].shares, lines[k].price,
                                  (10 ^ precision) * (MoneyScale \div 100))
            /\ (response.request = ScenarioA /\ precision = 3) =>
                   /\ [k \in 1..4 |-> lines[k].shares] = <<40000, 67, 1000, 10000>>
                   /\ LineCosts(order) = <<4000 * MoneyScale, 3015 * MoneyScale,
                                           2000 * MoneyScale, 1000 * MoneyScale>>

\* C10 witness: an order with a priced and an unpriced asset whose last line
\* costs something else than its dollarAmount
C10_Witness ==
    /\ Created
    /\ Len(response.order.assetOrders) >= 2
    /\ response.request.assets[1].price # Undefined
    /\ response.request.assets[Len(response.request.assets)].price = Undefined
    /\ LET last == response.order.assetOrders[Len(response.order.assetOrders)]
       IN  last.totalCost # last.amount /\ last.shares > 0

\* the ids the index map holds under key k
IndexSet(map, k) == IF k \in DOMAIN map THEN Range(map[k]) ELSE {}

OrderSymbols(order) == {order.assetOrders[k].symbol : k \in 1..Len(order.assetOrders)}
OrderAssetTypes(order) ==
    {order.assetOrders[k].type : k \in 1..Len(order.assetOrders)} \ {NoType}

\* C2: between any two operations the indexes agree with the primary map: an
\* id is in the side set of k iff the map holds an order of that id and side k,
\* in the symbol (asset class) set of k iff that order has a line of symbol
\* (asset class) k, and the insertion-ordered list holds exactly the ids of the
\* map, each once, in the order they were inserted.
C2_IndexConsistency ==
    /\ \A id \in DOMAIN orders : orders[id].orderId = id
    /\ \A k \in {"BUY", "SELL"} \cup DOMAIN ordersByType :
           IndexSet(ordersByType, k) = {id \in DOMAIN orders : orders[id].orderType = k}
    /\ \A k \in Range(Symbols) \cup DOMAIN ordersBySymbol :
           IndexSet(ordersBySymbol, k)
               = {id \in DOMAIN orders : k \in OrderSymbols(orders[id])}
    /\ \A k \in Range(Types) \cup DOMAIN ordersByAssetType :
           IndexSet(ordersByAssetType, k)
               = {id \in DOMAIN orders : k \in OrderAssetTypes(orders[id])}
    /\ Range(ordersByDate) = DOMAIN orders
    /\ \A i, j \in 1..Len(ordersByDate) : i < j => ordersByDate[i] < ordersByDate[j]
    /\ \A k \in DOMAIN ordersByType : Len(ordersByType[k]) = Cardinality(Range(ordersByType[k]))
    /\ \A k \in DOMAIN ordersBySymbol :
           Len(ordersBySymbol[k]) = Cardinality(Range(ordersBySymbol[k]))
    /\ \A k \in DOMAIN ordersByAssetType :
           Len(ordersByAssetType[k]) = Cardinality(Range(ordersByAssetType[k]))

\* C2 witness: two orders inserted after a reset, one of them with two lines
\* of different symbols
C2_Witness ==
    /\ Cardinality(DOMAIN orders) = 2
    /\ nextId = 3
    /\ \E id \in DOMAIN orders : Cardinality(OrderSymbols(orders[id])) = 2
    /\ \E k \in DOMAIN ordersBySymbol : Len(ordersBySymbol[k]) = 2

\* the order satisfies every filter the query supplies
Matches(order, params) ==
    /\ params.orderType # NoFilter => order.orderType = params.orderType
    /\ params.symbol # NoFilter =>
           \E k \in 1..Len(order.assetOrders) : order.assetOrders[k].symbol = params.symbol
    /\ params.assetType # NoFilter =>
           \E k \in 1..Len(order.assetOrders) : order.assetOrders[k].type = params.assetType
    /\ params.fromDate # Undefined => params.fromDate <= order.createdAt
    /\ params.toDate # Undefined => order.createdAt <= params.toDate

\* the stored orders a query is about
Matching(params) == {id \in DOMAIN orders : Matches(orders[id], params)}

Queried == response.kind = "getOrders"

\* C3: a query reports as total the number of stored orders that satisfy every
\* filter it supplies, and its page holds only such orders: the side is the
\* filtered side, some line has the filtered symbol, some line (the same or
\* another) has the filtered asset class, and fromDate <= createdAt <= toDate,
\* both ends included.  Without filters every stored order qualifies.
C3_Filters ==
    Queried =>
        LET params == response.params
            result == response.result
        IN  /\ result.pagination.total = Cardinality(Matching(params))
            /\ \A j \in 1..Len(result.orders) :
                   /\ result.orders[j].orderId \in DOMAIN orders
                   /\ result.orders[j] = orders[result.orders[j].orderId]
                   /\ Matches(result.orders[j], params)
            /\ ( /\ params.orderType = NoFilter /\ params.symbol = NoFilter
                 /\ params.assetType = NoFilter
                 /\ params.fromDate = Undefined /\ params.toDate = Undefined ) =>
                   result.pagination.total = Cardinality(DOMAIN orders)

\* C3 witness: a query by symbol, asset class and both dates returns an order
\* that has the symbol on one line and the asset class on another, and was
\* created at the instant that is both fromDate and toDate
C3_Witness ==
    /\ Queried
    /\ response.params.symbol = "AAPL"
    /\ response.params.assetType = "crypto"
    /\ response.params.fromDate = TickMs
    /\ response.params.toDate = TickMs
    /\ Len(response.result.orders) >= 1
    /\ response.result.orders[1].createdAt = TickMs
    /\ Cardinality(DOMAIN orders) > response.result.pagination.total

\* C4: the page is the stretch offset .. offset+limit-1 of the filtered orders
\* sorted by createdAt, newest first: the orders of a page are in
\* non-increasing createdAt order, each once, and the order at position j of
\* the page stands at position offset+j of the sorted whole, so that fewer than
\* offset+j filtered orders are newer than it and at least offset+j are as new.
C4_SortedPage ==
    Queried =>
        LET params == response.params
            page == response.result.orders
            offset == response.result.pagination.offset
            matching == Matching(params)
        IN  /\ \A i, j \in 1..Len(page) :
                   i < j => /\ page[i].createdAt >= page[j].createdAt
                            /\ page[i].orderId # page[j].orderId
            /\ \A j \in 1..Len(page) :
                   /\ Cardinality({id \in matching : orders[id].createdAt > page[j].createdAt})
                          < offset + j
                   /\ Cardinality({id \in matching : orders[id].createdAt >= page[j].createdAt})
                          >= offset + j

\* C4 witness: the second page of two orders out of three, the newer first
C4_Witness ==
    /\ Queried
    /\ response.result.pagination.offset = 1
    /\ response.result.pagination.total = 3
    /\ Len(response.result.orders) = 2
    /\ response.result.orders[1].createdAt > response.result.orders[2].createdAt

Min(a, b) == IF a < b THEN a ELSE b
Max(a, b) == IF a > b THEN a ELSE b

\* C5: with T orders passing the filters, a query of limit L >= 1 and offset
\* O >= 0 returns min(L, max(0, T - O)) orders, total T and hasMore = (O + L < T),
\* which is to say hasMore exactly when an order is left for a later page;
\* paging 150 ids with limit 10 and offset 140 gives 10 ids and hasMore false.
C5_Pagination ==
    Queried =>
        LET params == response.params
            result == response.result
            T == Cardinality(Matching(params))
            L == IF params.limit = Undefined THEN 50 ELSE params.limit
            O == IF params.offset = Undefined THEN 0 ELSE params.offset
            scenarioD == Paginate([i \in 1..150 |-> i],
                                  [params EXCEPT !.limit = 10, !.offset = 140])
        IN  /\ Len(result.orders) = Min(L, Max(0, T - O))
            /\ result.pagination.total = T
            /\ result.pagination.limit = L
            /\ result.pagination.offset = O
            /\ result.pagination.hasMore = (O + L < T)
            /\ result.pagination.hasMore = (T - (O + Len(result.orders)) > 0)
            /\ scenarioD.paginatedIds = [i \in 1..10 |-> 140 + i]
            /\ scenarioD.pagination.total = 150
            /\ ~scenarioD.pagination.hasMore

\* C5 witness: the last full page: offset + limit is the total, which is 3
C5_Witness ==
    /\ Queried
    /\ response.params.limit = 2
    /\ response.params.offset = 1
    /\ response.result.pagination.total = 3
    /\ Len(response.result.orders) = 2
    /\ ~response.result.pagination.hasMore

\* the statistics a full pass over the stored orders gives
IsFullPass(data) ==
    /\ data.totalOrders = Cardinality(DOMAIN orders)
    /\ data.uniqueSymbols = Cardinality(UNION {OrderSymbols(orders[id]) : id \in DOMAIN orders})
    /\ data.totalVolume = SumVolume(DOMAIN orders)
    /\ DOMAIN data.ordersByType = {orders[id].orderType : id \in DOMAIN orders}
    /\ \A k \in DOMAIN data.ordersByType :
           data.ordersByType[k] = Cardinality({id \in DOMAIN orders : orders[id].orderType = k})
    /\ DOMAIN data.ordersByAssetType = UNION {OrderAssetTypes(orders[id]) : id \in DOMAIN orders}
    /\ \A k \in DOMAIN data.ordersByAssetType :
           data.ordersByAssetType[k]
               = Cardinality({id \in DOMAIN orders : k \in OrderAssetTypes(orders[id])})

\* C11: stats() answers with the cached snapshot, computing nothing, when there
\* is a cache entry whose age, now minus its timestamp, is strictly less than
\* 60000 ms; with no entry, or one of age 60000 or more, it makes a full pass,
\* stores the result with the current time and returns it.  The age is looked
\* at inside stats() only: the passing of time changes nothing in the cache;
\* an insert and a reset each leave the cache empty.
C11_StatsCache ==
    [][ /\ (response = NoResponse /\ response'.kind = "getStats") =>
               IF statsCache # Null /\ now - statsCache.timestamp < 60000
               THEN /\ response'.cached
                    /\ response'.data = statsCache.data
                    /\ statsCache' = statsCache
               ELSE /\ ~response'.cached
                    /\ IsFullPass(response'.data)
                    /\ statsCache' # Null
                    /\ statsCache'.data = response'.data
                    /\ statsCache'.timestamp = now
                    /\ statsCache'.ttl = 60000
        /\ nextId' # nextId => statsCache' = Null
        /\ (response = NoResponse /\ response'.kind = "clear") => statsCache' = Null
        /\ now' # now => statsCache' = statsCache
        /\ statsCache' # statsCache =>
               \/ response = NoResponse /\ response'.kind \in {"getStats", "clear"}
               \/ nextId' # nextId
      ]_vars

\* C11 witness: stats() answered from a cache entry made one tick earlier,
\* over a store that holds an order
C11_Witness ==
    /\ response.kind = "getStats"
    /\ response.cached
    /\ statsCache # Null
    /\ now - statsCache.timestamp = TickMs
    /\ response.data.totalOrders >= 1

\* C12: getById(id) returns the record inserted under id, as it was inserted,
\* if that insert happened since the last reset, and otherwise fails with
\* NotFound carrying id: a stored record is never changed, it leaves the store
\* only by a reset, and it enters it only by the insert that returns it.
C12_GetById ==
    [][ /\ \A id \in DOMAIN orders :
               id \in DOMAIN orders' => orders'[id] = orders[id]
        /\ DOMAIN orders \ DOMAIN orders' # {} =>
               response'.kind = "clear" /\ DOMAIN orders' = {}
        /\ \A id \in DOMAIN orders' \ DOMAIN orders :
               /\ response'.kind = "createOrder"
               /\ ~response'.threw
               /\ response'.order.orderId = id
               /\ orders'[id] = response'.order
               /\ id > nextId
        /\ (response = NoResponse /\ response'.kind = "getOrderById") =>
               IF response'.orderId \in DOMAIN orders
               THEN ~response'.threw /\ response'.order = orders[response'.orderId]
               ELSE /\ response'.threw
                    /\ response'.code = "ORDER_NOT_FOUND"
                    /\ response'.order = Null
      ]_vars

\* C12 witness: the first of two stored orders is looked up and returned
C12_Witness ==
    /\ response.kind = "getOrderById"
    /\ ~response.threw
    /\ Cardinality(DOMAIN orders) = 2
    /\ \E id \in DOMAIN orders : id > response.orderId
    /\ response.order = orders[response.orderId]

\* the store holds what a freshly constructed one holds
StoreEmpty ==
    /\ orders = EmptyMap
    /\ ordersByType = EmptyMap
    /\ ordersBySymbol = EmptyMap
    /\ ordersByAssetType = EmptyMap
    /\ ordersByDate = <<>>
    /\ statsCache = Null

\* C13: right after reset() the primary map, the three indexes and the ordered
\* list are empty and the stats cache is null, whatever was stored before; on
\* the store so emptied every getById fails NotFound, every query reports
\* total 0 and an empty page, and stats() reports totalOrders 0 and
\* averageOrderSize 0; orders inserted after a reset are found, listed and
\* counted like any others.
C13_Reset ==
    /\ response.kind = "clear" => StoreEmpty
    /\ (response.kind = "getOrderById" /\ DOMAIN orders = {}) =>
           response.threw /\ response.code = "ORDER_NOT_FOUND"
    /\ (response.kind = "getOrders" /\ DOMAIN orders = {}) =>
           /\ response.result.pagination.total = 0
           /\ response.result.orders = <<>>
           /\ ~response.result.pagination.hasMore
    /\ (response.kind = "getStats" /\ DOMAIN orders = {}) =>
           /\ response.data.totalOrders = 0
           /\ response.data.averageOrderSize[1] = 0
           /\ response.data.totalVolume = 0
           /\ response.data.uniqueSymbols = 0
    /\ (nextId > Cardinality(DOMAIN orders) /\ response.kind = "getOrders") =>
           LET params == response.params
           IN  ( /\ params.orderType = NoFilter /\ params.symbol = NoFilter
                 /\ params.assetType = NoFilter /\ params.fromDate = Undefined ) =>
                   response.result.pagination.total = Cardinality(DOMAIN orders)
    /\ (nextId > Cardinality(DOMAIN orders) /\ response.kind = "getStats") =>
           response.data.totalOrders = Cardinality(DOMAIN orders)

\* C13 witness: a query without filters on a store that was reset after two
\* inserts finds nothing
C13_Witness ==
    /\ response.kind = "getOrders"
    /\ response.params.orderType = NoFilter
    /\ response.params.symbol = NoFilter
    /\ response.params.fromDate = Undefined
    /\ nextId >= 2
    /\ StoreEmpty
    /\ response.result.pagination.total = 0

\* the query supplies a value that has no id set in its index
AbsentFilter(params) ==
    \/ params.orderType # NoFilter /\ params.orderType \notin DOMAIN ordersByType
    \/ params.symbol # NoFilter /\ params.symbol \notin DOMAIN ordersBySymbol
    \/ params.assetType # NoFilter /\ params.assetType \notin DOMAIN ordersByAssetType

\* C17: a query that supplies a side, a symbol or an asset class that has no id
\* set in its index returns an empty page, total 0 and hasMore false, whatever
\* its other filters, dates, limit and offset are; so does every query with
\* such a filter on an empty store, {side BUY, asset class crypto, symbol BTC}
\* among them.
C17_AbsentFilter ==
    Queried =>
        /\ AbsentFilter(response.params) =>
               /\ response.result.orders = <<>>
               /\ response.result.pagination.total = 0
               /\ ~response.result.pagination.hasMore
        /\ ( /\ DOMAIN orders = {}
             /\ \/ response.params.orderType # NoFilter
                \/ response.params.symbol # NoFilter
                \/ response.params.assetType # NoFilter ) => AbsentFilter(response.params)

\* C17 witness: a query for a symbol no order has, with a side some order has,
\* on a store that holds orders
C17_Witness ==
    /\ Queried
    /\ response.params.symbol = "TSLA"
    /\ response.params.orderType = "BUY"
    /\ "BUY" \in DOMAIN ordersByType
    /\ Cardinality(DOMAIN orders) >= 2
    /\ response.result.pagination.total = 0

\* the id set of a query that supplies the filter sets in this order
IdSet(sets) == Range(intersectSets(sets))

\* C18: in every state of the store between operations, for every side and symbol, intersecting
\* the side set with the symbol set gives the ids that intersecting the symbol
\* set with the side set gives, the ids that are in both; and with the asset
\* class set as a third, every order of the three gives the ids that are in
\* all three.  The ids a query with side and symbol finds are those.
C18_Commutativity ==
    /\ Idle => \A side \in DOMAIN ordersByType : \A symbol \in DOMAIN ordersBySymbol :
           LET a == ordersByType[side]
               b == ordersBySymbol[symbol]
           IN  /\ IdSet(<<a, b>>) = IdSet(<<b, a>>)
               /\ IdSet(<<a, b>>) = Range(a) \cap Range(b)
               /\ \A type \in DOMAIN ordersByAssetType :
                      LET c == ordersByAssetType[type]
                          all == Range(a) \cap Range(b) \cap Range(c)
                      IN  /\ IdSet(<<a, b, c>>) = all /\ IdSet(<<a, c, b>>) = all
                          /\ IdSet(<<b, a, c>>) = all /\ IdSet(<<b, c, a>>) = all
                          /\ IdSet(<<c, a, b>>) = all /\ IdSet(<<c, b, a>>) = all
    /\ ( /\ Queried
         /\ response.params.orderType # NoFilter /\ response.params.symbol # NoFilter
         /\ response.params.assetType = NoFilter
         /\ response.params.fromDate = Undefined /\ response.params.toDate = Undefined
         /\ ~AbsentFilter(response.params) ) =>
           response.result.pagination.total
               = Cardinality(Range(ordersBySymbol[response.params.symbol])
                                 \cap Range(ordersByType[response.params.orderType]))

\* C18 witness: a query by side and symbol where the side set is the larger
\* of the two and not all of its ids have the symbol
C18_Witness ==
    /\ Queried
    /\ response.params.orderType = "BUY"
    /\ response.params.symbol = "BTC"
    /\ "BUY" \in DOMAIN ordersByType
    /\ "BTC" \in DOMAIN ordersBySymbol
    /\ Len(ordersByType["BUY"]) = 2
    /\ Len(ordersBySymbol["BTC"]) = 3
    /\ response.result.pagination.total = 2

\* the day is Monday..Friday and not in the holiday list; days are counted
\* from Wednesday 2025-01-01, so the Saturdays and Sundays are the days that
\* leave 3 and 4 when divided by 7
ValidDay(day) ==
    /\ day % 7 \notin {3, 4}
    /\ day \notin {0, 19, 47, 107, 145, 169, 184, 243, 330, 358}

\* 09:30:00.000 and 16:00:00.000 in milliseconds since midnight
OpenTime == 34200000
CloseTime == 57600000

\* the market is open at the instant t
OpenAt(t) == ValidDay(t.day) /\ OpenTime <= t.ms /\ t.ms < CloseTime

\* C14: isOpen(instant) is true exactly when the local weekday is Monday to
\* Friday, the local date is not a listed holiday and the local time t has
\* 09:30 <= t < 16:00; it is false on every Saturday and Sunday, on every
\* listed holiday and at every time outside the window, 16:00 included.
C14_IsOpen ==
    response.kind = "isMarketOpen" =>
        LET t == response.timestamp
        IN  /\ response.result <=> OpenAt(t)
            /\ t.day % 7 \in {3, 4} => ~response.result
            /\ t.day \in {0, 19, 47, 107, 145, 169, 184, 243, 330, 358} => ~response.result
            /\ (t.ms < OpenTime \/ t.ms >= CloseTime) => ~response.result
            /\ (ValidDay(t.day) /\ t.ms \in {OpenTime, CloseTime - 1}) => response.result

\* C14 witness: isOpen is asked at 09:30:00.000 of Thursday 2025-01-02 and
\* answers true
C14_Witness ==
    /\ response.kind = "isMarketOpen"
    /\ response.timestamp = DateTime(1, OpenTime)
    /\ response.result

\* C16: on an instant at which the market is open nextTradeable returns that
\* instant, day and time of day unchanged.
C16_OpenUnchanged ==
    (response.kind = "getNextTradingTime" /\ OpenAt(response.timestamp)) =>
        response.result = response.timestamp

\* C16 witness: nextTradeable is asked at the last open millisecond of a
\* Friday and returns it
C16_Witness ==
    /\ response.kind = "getNextTradingTime"
    /\ response.timestamp = DateTime(2, CloseTime - 1)
    /\ response.result = response.timestamp

\* C20: nextTradeable ends on every instant.  On a closed instant its first
\* candidate is the open of the same day if the instant is before it on a
\* trading day that is no holiday, and the open of the next day otherwise; it
\* rejects fewer than 30 candidates, one calendar day apart and each at the
\* open time, and returns the first that is a trading day and no holiday;
\* had it rejected 30 it would return the open of the first Monday on or
\* after the next candidate.  With the listed holidays it never rejects more
\* than 3.
C20_BoundedScan ==
    (response.kind = "getNextTradingTime" /\ ~OpenAt(response.timestamp)) =>
        LET t == response.timestamp
            first == response.first
            result == response.result
        IN  /\ first = IF t.ms < OpenTime /\ ValidDay(t.day)
                       THEN DateTime(t.day, OpenTime)
                       ELSE DateTime(t.day + 1, OpenTime)
            /\ response.attempts <= 30
            /\ response.found =>
                   /\ response.attempts < 30
                   /\ result = DateTime(first.day + response.attempts, OpenTime)
                   /\ ValidDay(result.day)
                   /\ \A day \in first.day..(result.day - 1) : ~ValidDay(day)
            /\ ~response.found =>
                   /\ response.attempts = 30
                   /\ result.ms = OpenTime
                   /\ result.day >= first.day + 30
                   /\ result.day < first.day + 37
                   /\ result.day % 7 = 5
            /\ response.found /\ response.attempts <= 3
            /\ Earlier(t, result)

\* C20 witness: asked after the close of Thursday 2025-04-17, nextTradeable
\* rejects Good Friday, Saturday and Sunday and returns Monday's open
C20_Witness ==
    /\ response.kind = "getNextTradingTime"
    /\ response.timestamp = DateTime(106, CloseTime)
    /\ response.attempts = 3
    /\ response.result = DateTime(110, OpenTime)

\* C15: an order that createOrder returns has executableNow = isOpen(now) for
\* the instant now read at creation; when it is true, executionInstant is now
\* and nextAvailableInstant is absent; when it is false, both are the same
\* instant, the first open of a trading day that is no holiday after now.
\* The order has an id no order had before and is the record the store holds
\* under that id.
C15_ExecutionTiming ==
    Created =>
        LET order == response.order
            T == DateTime(today + (now \div DayMs), now % DayMs)
        IN  /\ order.canExecuteNow <=> OpenAt(T)
            /\ order.canExecuteNow =>
                   order.executionTime = T /\ order.nextAvailableTime = Null
            /\ ~order.canExecuteNow =>
                   /\ order.nextAvailableTime = order.executionTime
                   /\ order.executionTime.ms = OpenTime
                   /\ ValidDay(order.executionTime.day)
                   /\ Earlier(T, order.executionTime)
                   /\ \A day \in T.day..order.executionTime.day :
                          ( /\ ValidDay(day)
                            /\ Earlier(T, DateTime(day, OpenTime)) ) =>
                              day = order.executionTime.day
            /\ order.orderId = nextId
            /\ order.orderId \in DOMAIN orders
            /\ orders[order.orderId] = order
            /\ Cardinality(DOMAIN orders) = 1

\* C15 witness: an order created at the close of a Friday is to execute at
\* the open of the Monday after
C15_Witness ==
    /\ Created
    /\ today = 2
    /\ now = CloseTime
    /\ ~response.order.canExecuteNow
    /\ response.order.executionTime = DateTime(5, OpenTime)
    /\ response.order.nextAvailableTime = DateTime(5, OpenTime)

\* C19 as the specification states it: rounding is idempotent, that is, for
\* every value x and every number of decimals n in 0..10, rounding the result
\* of roundToDecimal(x, n) again to n decimals gives that result back.
C19_AsStated ==
    response.kind = "roundToDecimalAgain" => response.result = response.value

\* the double value lies exactly halfway between two adjacent multiples of
\* 10^-decimals: value * 10^decimals, computed exactly, is an integer and a half
Halfway(value, decimals) ==
    /\ value.m # <<>>
    /\ value.e < 0
    /\ LET p == BigMulPow10(value.m, decimals)
       IN  /\ BigBit(p, (0 - value.e) - 1) = 1
           /\ ~BigLowBits(p, (0 - value.e) - 1)

\* the neighbour of a halfway value whose last digit is even
HalfEvenNeighbour(value, decimals) ==
    LET down == BigShr(BigMulPow10(value.m, decimals), 0 - value.e, FALSE).q
    IN  BigOverPow10(IF BigOdd(down) THEN BigMulAdd(down, 1, 1) ELSE down, decimals)

\* C21 as the specification states it: roundToDecimal rounds half to even, a
\* value exactly halfway between two adjacent multiples of 10^-decimals goes
\* to the multiple whose last digit is even (0.125 to 0.12 at 2 decimals).
C21_AsStated ==
    ( /\ response.kind = "roundToDecimal"
      /\ Halfway(response.value, response.decimals) ) =>
        response.result = HalfEvenNeighbour(response.value, response.decimals)

\* one cent, in the unit of money amounts
Cent == MoneyScale \div 100

\* C22 as the specification states it: every line of a created order has a
\* dollarAmount that is a whole number of cents, the last line included, for
\* every accepted requestedTotal and every total derived in amount mode.
C22_AsStated ==
    Created =>
        \A k \in 1..Len(response.order.assetOrders) :
            response.order.assetOrders[k].amount % Cent = 0

\* the units of every line of the order are its dollarAmount / price rounded
\* to the order's own sharePrecision
UnitsAtOwnPrecision(order) ==
    \A k \in 1..Len(order.assetOrders) :
        LET line == order.assetOrders[k]
        IN  IsMathRound(line.shares, line.amount, 10 ^ order.decimalPrecision, line.price)

\* C23: share precision is captured per order at creation.  The order a
\* creation returns carries the precision configured at that moment, the units
\* of every stored order are rounded to the order's own sharePrecision, and no
\* step (a change of the configured precision, another creation, a query, a
\* stats request) changes an order that is stored.
C23_PrecisionCaptured ==
    /\ [](Created => response.order.decimalPrecision = decimalPrecision)
    /\ [](\A id \in DOMAIN orders : UnitsAtOwnPrecision(orders[id]))
    /\ [][\A id \in DOMAIN orders : id \in DOMAIN orders' /\ orders'[id] = orders[id]]_vars

\* C23 witness: a query returns two stored orders of different precisions,
\* neither of them the precision configured now
C23_Witness ==
    /\ Queried
    /\ Len(response.result.orders) = 2
    /\ response.result.orders[1].decimalPrecision # response.result.orders[2].decimalPrecision
    /\ response.result.orders[1].assetOrders[1].shares
           # response.result.orders[2].assetOrders[1].shares
    /\ \A id \in DOMAIN orders : orders[id].decimalPrecision # decimalPrecision

\* C24 as the specification states it: every line of a created order has
\* dollarAmount > 0 and units >= 0; for a request that passes validation (all
\* allocationPercents > 0, requestedTotal >= 0.01) the remainder given to the
\* last line is never zero or negative.
C24_AsStated ==
    ( /\ Created
      /\ response.via = "http"
      /\ response.order.totalAmount >= Cent
      /\ \A i \in 1..Len(response.order.portfolio) :
             response.order.portfolio[i].allocation > 0 ) =>
        \A k \in 1..Len(response.order.assetOrders) :
            /\ response.order.assetOrders[k].amount > 0
            /\ response.order.assetOrders[k].shares >= 0

\* C25 as the specification states it: a request of amount mode whose assets
\* all have dollarAmount > 0 passes portfolio validation, so that createOrder
\* never fails with InvalidPortfolio for it, whatever the ratio of the amounts.
C25_AsStated ==
    ( /\ response.kind = "createOrder"
      /\ response.code # "VALIDATION_ERROR"
      /\ AmountModeRequest(response.request) ) =>
        ~(response.threw /\ response.code = "INVALID_PORTFOLIO")

\* the statistics of the store as it is now: the full pass, the counts by
\* side adding up to the number of orders, and the average order size as the
\* fraction volume / number of orders, 0 for the empty store
FreshStats(data) ==
    /\ IsFullPass(data)
    /\ SumSeq([i \in 1..2 |-> IF <<"BUY", "SELL">>[i] \in DOMAIN data.ordersByType
                              THEN data.ordersByType[<<"BUY", "SELL">>[i]] ELSE 0])
           = data.totalOrders
    /\ data.averageOrderSize
           = IF Cardinality(DOMAIN orders) = 0 THEN <<0, 1>>
             ELSE <<SumVolume(DOMAIN orders), Cardinality(DOMAIN orders)>>

\* C26: at every point of every sequence of insert, reset, query and stats
\* operations, and at every clock time, stats() returns the values a fresh full
\* pass over the current store would give, and a cached snapshot, while there
\* is one, is the statistics of the current store.
C26_StatsFresh ==
    /\ response.kind = "getStats" => FreshStats(response.data)
    /\ statsCache # Null => FreshStats(statsCache.data)

\* C26 witness: stats() answered from the cache, after the clock moved, over a
\* store of two orders of different sides that was reset before
C26_Witness ==
    /\ response.kind = "getStats"
    /\ response.cached
    /\ now > statsCache.timestamp
    /\ response.data.totalOrders = 2
    /\ DOMAIN response.data.ordersByType = {"BUY", "SELL"}
    /\ nextId = 3

\* C27: for every instant t at which isOpen(t) is false, nextTradeable(t) is
\* strictly later than t, falls exactly at the 09:30:00.000 open of its day,
\* satisfies isOpen, and is the earliest such instant: no trading window of a
\* valid day has an instant strictly between t and the result.
C27_EarliestOpen ==
    (response.kind = "getNextTradingTime" /\ ~isMarketOpen(response.timestamp)) =>
        LET t == response.timestamp
            result == response.result
        IN  /\ Earlier(t, result)
            /\ result.ms = OpenTime
            /\ isMarketOpen(result)
            /\ \A day \in t.day..result.day :
                   ValidDay(day) =>
                       \/ ~Earlier(t, DateTime(day, CloseTime - 1))
                       \/ ~Earlier(DateTime(day, OpenTime), result)
            /\ \A u \in Instants :
                   (Earlier(t, u) /\ Earlier(u, result)) => ~isMarketOpen(u)

\* C27 witness: asked at noon of Thanksgiving, Thursday 2025-11-27,
\* nextTradeable returns the open of the Friday after
C27_Witness ==
    /\ response.kind = "getNextTradingTime"
    /\ response.timestamp = DateTime(330, DayMs \div 2)
    /\ ~isMarketOpen(response.timestamp)
    /\ response.result = DateTime(331, OpenTime)

\* C30: with the ten holidays of 2025 and Monday..Friday trading days
\* nextTradeable finds a trading day that is no holiday before it has used up
\* its 30 candidates, from every starting instant: the next-Monday fallback,
\* which tests no holiday, is never reached, and what is returned is never a
\* holiday or a weekend day.
C30_FallbackUnreached ==
    response.kind = "getNextTradingTime" =>
        /\ response.found
        /\ response.attempts < maxAttempts
        /\ ~OpenAt(response.timestamp) =>
               /\ response.result.day = response.first.day + response.attempts
               /\ ValidDay(response.result.day)

\* C30 witness: asked at the close of Thursday 2025-07-03, nextTradeable
\* rejects Independence Day, Saturday and Sunday, three of its 30 candidates,
\* and returns Monday's open
C30_Witness ==
    /\ response.kind = "getNextTradingTime"
    /\ response.timestamp = DateTime(183, CloseTime)
    /\ response.found
    /\ response.attempts = 3
    /\ response.result = DateTime(187, OpenTime)

\* C29: query and getById leave the whole store unchanged (the primary map,
\* every id set of the indexes, the order of the insertion-ordered list and
\* the stats cache), and stats changes nothing but the stats cache; asked
\* again on the store a query left, the same query returns the same page,
\* total and hasMore.
C29_QueriesFrame ==
    /\ [](Queried => findAll(response.params) = response.result)
    /\ [][ /\ (response = NoResponse /\ response'.kind \in {"getOrders", "getOrderById"}) =>
                  /\ orders' = orders
                  /\ ordersByType' = ordersByType
                  /\ ordersBySymbol' = ordersBySymbol
                  /\ ordersByAssetType' = ordersByAssetType
                  /\ ordersByDate' = ordersByDate
                  /\ statsCache' = statsCache
           /\ (response = NoResponse /\ response'.kind = "getStats") =>
                  /\ orders' = orders
                  /\ ordersByType' = ordersByType
                  /\ ordersBySymbol' = ordersBySymbol
                  /\ ordersByAssetType' = ordersByAssetType
                  /\ ordersByDate' = ordersByDate
         ]_vars

\* C29 witness: a query returned two orders newest first, the reverse of the
\* insertion-ordered list, which is as it was, and the stats cache is still there
C29_Witness ==
    /\ Queried
    /\ Len(response.result.orders) = 2
    /\ Len(ordersByDate) = 2
    /\ response.result.orders[1].orderId = ordersByDate[2]
    /\ response.result.orders[2].orderId = ordersByDate[1]
    /\ response.result.orders[1].createdAt > response.result.orders[2].createdAt
    /\ statsCache # Null

\* C28: when createOrder fails with InvalidPortfolio (no mode, a zero
\* allocation, or allocations that do not add up to 100) the store is left
\* exactly as it was: nothing is added to the primary map, to an index or to
\* the ordered list, the number of orders is the same, and the stats cache is
\* neither replaced nor dropped.
C28_FailureLeavesStore ==
    [][ ( /\ response = NoResponse
          /\ response'.kind = "createOrder"
          /\ response'.threw
          /\ response'.code = "INVALID_PORTFOLIO" ) =>
            /\ orders' = orders
            /\ ordersByType' = ordersByType
            /\ ordersBySymbol' = ordersBySymbol
            /\ ordersByAssetType' = ordersByAssetType
            /\ ordersByDate' = ordersByDate
            /\ Cardinality(DOMAIN orders') = Cardinality(DOMAIN orders)
            /\ statsCache' = statsCache
            /\ nextId' = nextId
      ]_vars

\* C28 witness: createOrder failed for a zero allocation over a store of two
\* orders whose statistics are in the cache
C28_Witness ==
    /\ response.kind = "createOrder"
    /\ response.threw
    /\ response.code = "INVALID_PORTFOLIO"
    /\ response.symbols = <<"AAPL">>
    /\ Cardinality(DOMAIN orders) = 2
    /\ Len(ordersByDate) = 2
    /\ statsCache # Null
    /\ statsCache.data.totalOrders = 2
====
